---- MODULE Spec2Model ----
(***************************************************************************)
(* Session store and search engine of mcp-chat-context                     *)
(* (server/src/database/database-better.ts, server/src/server.ts).         *)
(*                                                                         *)
(* Text is modelled as a tuple of one-character strings, so that LIKE,     *)
(* the FTS5 tokenizer, JSON.stringify and the key-term extraction are      *)
(* computed character by character as the code computes them.              *)
(*                                                                         *)
(* Time is counted in half days (Date.now() / 12h); the model's epoch is   *)
(* midnight of the first day of a month.                                   *)
(***************************************************************************)
EXTENDS Integers, Sequences, FiniteSets, TLC

\* ------------------------------------------------------------------ bounds
MaxSessions == 2      \* rows alive in chat_sessions at once
MaxRowid    == 2      \* largest rowid / FTS docid handed out
MaxNow      == 4      \* last clock value (half days)

\* ------------------------------------------------------- program constants
TopTerms   == 8       \* .slice(0, 8)
MinWordLen == 3       \* word.length > 3
HalfDaysPerDay == 2   \* the model's time unit

\* ------------------------------------------------------------- characters
NULL      == <<"NULL">>        \* SQL NULL / JS null
UNDEFINED == <<"undefined">>   \* JS undefined: a field that is not supplied

UpperAZ == <<"A","B","C","D","E","F","G","H","I","J","K","L","M",
             "N","O","P","Q","R","S","T","U","V","W","X","Y","Z">>
LowerAZ == <<"a","b","c","d","e","f","g","h","i","j","k","l","m",
             "n","o","p","q","r","s","t","u","v","w","x","y","z">>

Range(f) == { f[i] : i \in DOMAIN f }

Letters == Range(UpperAZ) \cup Range(LowerAZ)

IsLetter(c) == c \in Letters

\* String.prototype.toLowerCase, one character
LowerOf ==
  [c \in Letters |->
     IF c \in Range(UpperAZ)
       THEN LowerAZ[CHOOSE i \in DOMAIN UpperAZ : UpperAZ[i] = c]
       ELSE c]

ToLowerChar(c) == IF c \in Letters THEN LowerOf[c] ELSE c

toLowerCase(s) == [i \in 1..Len(s) |-> ToLowerChar(s[i])]

\* JS truthiness of an optional string: undefined, null and '' are falsy
Truthy(s) == s # UNDEFINED /\ s # NULL /\ s # <<>>

Max(S) == CHOOSE x \in S : \A y \in S : y <= x
Min(S) == CHOOSE x \in S : \A y \in S : x <= y

\* the decimal digits, in the order of their character codes
Digits == <<"0","1","2","3","4","5","6","7","8","9">>

DigitValue == [c \in Range(Digits) |-> (CHOOSE i \in DOMAIN Digits : Digits[i] = c) - 1]

\* comparison of two TEXT values made of digits, as SQLite's BINARY collation
\* does it: byte by byte, a proper prefix sorting first
StrLT(a, b) ==
  \/ Len(a) < Len(b) /\ SubSeq(b, 1, Len(a)) = a
  \/ \E k \in 1..Min({ Len(a), Len(b) }) :
       /\ SubSeq(a, 1, k - 1) = SubSeq(b, 1, k - 1)
       /\ DigitValue[a[k]] < DigitValue[b[k]]

StrLE(a, b) == a = b \/ StrLT(a, b)

\* Date.prototype.toISOString() of the instant t (half days of the model's
\* month): two characters, the first standing for the date part YYYY-MM-DD
\* (the day of the month), the second for the time part THH:mm:ss.sssZ ("0"
\* midnight, "1" noon).  A date-only string is the first character alone.
toISOString(t) ==
  << Digits[(t \div HalfDaysPerDay) + 2], Digits[(t % HalfDaysPerDay) + 1] >>

\* the maximal runs of characters satisfying IsCh, as <<first, last>> pairs
Runs(s, IsCh(_)) ==
  { <<i, j>> \in (1..Len(s)) \X (1..Len(s)) :
      /\ i <= j
      /\ \A k \in i..j : IsCh(s[k])
      /\ (i = 1 \/ ~IsCh(s[i-1]))
      /\ (j = Len(s) \/ ~IsCh(s[j+1])) }

\* the runs as a sequence of words, in text order
WordsOf(s, IsCh(_)) ==
  LET R == Runs(s, IsCh)
      nth(k) == CHOOSE r \in R : Cardinality({ q \in R : q[1] < r[1] }) = k - 1
  IN  [k \in 1..Cardinality(R) |-> SubSeq(s, nth(k)[1], nth(k)[2])]

\* ---------------------------------------------------------------- SQLite
\* x LIKE '%q%': ASCII case-insensitive substring (texts of the model hold no
\* LIKE wildcard characters % and _)
LikeContains(x, q) ==
  /\ x # NULL
  /\ \E i \in 0..(Len(x) - Len(q)) :
       \A j \in 1..Len(q) : ToLowerChar(x[i + j]) = ToLowerChar(q[j])

\* FTS5 unicode61 tokenizer: maximal runs of letters, folded to lower case
FtsTokens(s) ==
  IF s = NULL THEN {}
  ELSE { toLowerCase(SubSeq(s, r[1], r[2])) : r \in Runs(s, IsLetter) }

\* JSON.stringify of an array of strings
RECURSIVE JoinTags(_)
JoinTags(tags) ==
  IF tags = <<>> THEN <<>>
  ELSE <<"\"">> \o tags[1] \o <<"\"">> \o
       (IF Len(tags) = 1 THEN <<>> ELSE <<",">> \o JoinTags(Tail(tags)))

JSONStringify(tags) == <<"[">> \o JoinTags(tags) \o <<"]">>


\* ------------------------------------------------------------ test texts
tNode    == <<"N","o","d","e">>
tRust    == <<"R","u","s","t">>
tNodesDb == <<"n","o","d","e","s"," ","d","b">>
tNodesApi == <<"n","o","d","e","s"," ","a","p","i">>
tApi     == <<"a","p","i">>
tDb      == <<"d","b">>

\* a CHECK that lets one more agent type in
AgentTypesAndGpt == { <<"claude">>, <<"cursor">>, <<"other">>, <<"gpt">> }

AgentTypes == { <<"claude">>, <<"cursor">>, <<"other">> }  \* CHECK (agent_type IN (...))

\* what callers pass to createSession
CreateInputs ==
  { [title |-> tNode, agent_id |-> <<"agent-a">>, agent_type |-> <<"claude">>,
     project_context |-> <<"proj">>, original_content |-> tNodesDb,
     tags |-> JSONStringify(<<tDb>>)],
    [title |-> tRust, agent_id |-> <<"agent-b">>, agent_type |-> <<"other">>,
     project_context |-> NULL, original_content |-> tNodesApi,
     tags |-> JSONStringify(<<>>)] }

\* Math.random().toString(36).substr(2, 9), cut down to two outcomes
Rand == {0, 1}

\* --------------------------------------------------------------- the state
VARIABLES
  fts5,      \* the SQLite build has the FTS5 module (environment)
  db,        \* this.db is set (initialize() has opened the handle)
  hasFTS5,   \* result of checkFTS5Support() in the last initialize()
  schema,    \* names in sqlite_master
  rows,      \* table chat_sessions
  ftsIdx,    \* full-text index of chat_sessions_fts: docid -> set of tokens
  now,       \* Date.now(), in half days
  ret        \* outcome of the last call: [op, ok, arg, out]

vars == <<fts5, db, hasFTS5, schema, rows, ftsIdx, now, ret>>

T_SESSIONS == "chat_sessions"
T_FTS      == "chat_sessions_fts"
TR_AI      == "chat_sessions_ai"
TR_AD      == "chat_sessions_ad"
TR_AU      == "chat_sessions_au"
Indexes    == { "idx_chat_sessions_agent_id", "idx_chat_sessions_agent_type",
                "idx_chat_sessions_project_context", "idx_chat_sessions_created_at" }

Returned(op, arg, out) == [op |-> op, ok |-> TRUE,  arg |-> arg, out |-> out]
Thrown(op, arg)        == [op |-> op, ok |-> FALSE, arg |-> arg, out |-> <<>>]

Ids == { r.id : r \in rows }
RowOf(id) == CHOOSE r \in rows : r.id = id

\* the text a row contributes to the index: title, original_content, tags
RowTokens(r) ==
  FtsTokens(r.title) \cup FtsTokens(r.original_content) \cup FtsTokens(r.tags)

\* rowid of the next INSERT: one more than the largest rowid in use
NextRowid(R) == IF R = {} THEN 1 ELSE Max({ r.rowid : r \in R }) + 1
NextDocid(idx) == IF DOMAIN idx = {} THEN 1 ELSE Max(DOMAIN idx) + 1

EmptyIdx == [d \in {} |-> {}]

\* checkFTSTableExists(): sqlite_master holds chat_sessions_fts
checkFTSTableExists == db /\ T_FTS \in schema

\* checkFTS5Support(): CREATE VIRTUAL TABLE ... USING fts5 succeeds iff the
\* module is compiled in
checkFTS5Support == fts5

\* createFTSTriggers(): three CREATE TRIGGER IF NOT EXISTS
createFTSTriggers(s) == s \cup { TR_AI, TR_AD, TR_AU }

\* createTables(hasFTS5): CREATE ... IF NOT EXISTS adds what is missing
createTables(s, has) ==
  LET base == s \cup { T_SESSIONS } \cup Indexes
  IN  IF has THEN createFTSTriggers(base \cup { T_FTS }) ELSE base

\* INSERT INTO chat_sessions_fts(id, title, ...) SELECT ... FROM chat_sessions:
\* every row is indexed under a fresh docid (the statement names no rowid)
RECURSIVE Backfill(_, _)
Backfill(idx, R) ==
  IF R = {} THEN idx
  ELSE LET r == CHOOSE x \in R : \A y \in R : x.rowid <= y.rowid
       IN  Backfill([d \in DOMAIN idx \cup { NextDocid(idx) } |->
                       IF d \in DOMAIN idx THEN idx[d] ELSE RowTokens(r)],
                    R \ { r })

\* a back-fill that runs whenever the table holds rows
initializeFTSIndexUnguarded(s, idx, R) ==
  IF T_FTS \notin s THEN idx
  ELSE IF Cardinality(R) > 0 THEN Backfill(idx, R)
  ELSE idx

\* initializeFTSIndex().  chat_sessions_fts is an external-content table
\* (content='chat_sessions'): SELECT COUNT(*) FROM chat_sessions_fts scans the
\* content table, so ftsCount is the number of rows of chat_sessions.
initializeFTSIndex(s, idx, R) ==
  LET count    == Cardinality(R)
      ftsCount == Cardinality(R)
  IN  IF T_FTS \notin s THEN idx           \* prepare throws, caught and logged
      ELSE IF count > 0 /\ ftsCount = 0 THEN Backfill(idx, R)
      ELSE idx

Init ==
  /\ fts5 \in BOOLEAN
  /\ db = FALSE
  /\ hasFTS5 = FALSE
  /\ schema = {}
  /\ rows = {}
  /\ ftsIdx = EmptyIdx
  /\ now = 0
  /\ ret = Returned("new", <<>>, <<>>)

\* initialize()
initialize ==
  LET has == checkFTS5Support
      s   == createTables(schema, has)
  IN  /\ db' = TRUE
      /\ hasFTS5' = has
      /\ schema' = s
      /\ ftsIdx' = IF has THEN initializeFTSIndex(s, ftsIdx, rows) ELSE ftsIdx
      /\ ret' = Returned("initialize", <<>>, <<>>)
      /\ UNCHANGED <<fts5, rows, now>>

\* time passes: the clock advances by two days
Tick ==
  /\ now + 2 * HalfDaysPerDay <= MaxNow
  /\ now' = now + 2 * HalfDaysPerDay
  /\ UNCHANGED <<fts5, db, hasFTS5, schema, rows, ftsIdx, ret>>

\* generateId(): 'session_' + Date.now() + '_' + random
generateId(rnd) == <<now, rnd>>

\* trigger chat_sessions_ai: INSERT INTO chat_sessions_fts(id, title, ...)
\* VALUES (new...) names no rowid, so FTS5 files the tokens under its own next
\* docid (largest docid so far + 1), not under the rowid of the new row
TriggerAI(idx, r) ==
  [d \in DOMAIN idx \cup { NextDocid(idx) } |->
     IF d \in DOMAIN idx THEN idx[d] ELSE RowTokens(r)]

\* a row bound with a wrong parameter order: agent_id lands in title
fullSessionMisbound(session, id) ==
  [id |-> id, title |-> session.agent_id, agent_id |-> session.agent_id,
   agent_type |-> session.agent_type, project_context |-> session.project_context,
   original_content |-> session.original_content, tags |-> session.tags,
   created_at |-> now, updated_at |-> now]

\* fullSession = {...session, id, created_at: now, updated_at: now}, as bound
\* to the nine parameters of the INSERT
fullSession(session, id) ==
  [id |-> id, title |-> session.title, agent_id |-> session.agent_id,
   agent_type |-> session.agent_type, project_context |-> session.project_context,
   original_content |-> session.original_content, tags |-> session.tags,
   created_at |-> now, updated_at |-> now]

\* the stored row: the bound values under the rowid SQLite assigns
Stored(full, rowid) ==
  [rowid |-> rowid, id |-> full.id, title |-> full.title,
   agent_id |-> full.agent_id, agent_type |-> full.agent_type,
   project_context |-> full.project_context,
   original_content |-> full.original_content, tags |-> full.tags,
   created_at |-> full.created_at, updated_at |-> full.updated_at]

\* createSession(session)
createSession(session, rnd) ==
  LET id  == generateId(rnd)
      row == Stored(fullSession(session, id), NextRowid(rows))
  IN  /\ Cardinality(rows) < MaxSessions
      /\ NextRowid(rows) <= MaxRowid
      /\ TR_AI \in schema => NextDocid(ftsIdx) <= MaxRowid
      /\ UNCHANGED <<fts5, db, hasFTS5, schema, now>>
      /\ IF \/ ~db                                   \* Database not initialized
            \/ T_SESSIONS \notin schema               \* no such table
            \/ id \in Ids                            \* PRIMARY KEY
            \/ session.agent_type \notin AgentTypes  \* CHECK constraint
            \/ (TR_AI \in schema /\ ~fts5)           \* no such module: fts5
         THEN /\ ret' = Thrown("createSession", session)
              /\ UNCHANGED <<rows, ftsIdx>>
         ELSE /\ rows' = rows \cup { row }
              /\ ftsIdx' = IF TR_AI \in schema THEN TriggerAI(ftsIdx, row) ELSE ftsIdx
              /\ ret' = Returned("createSession", session, id)

\* the null that getSession returns when no row has the id
NoSession == [null |-> TRUE]

\* getSession(id)
getSession(id) ==
  /\ UNCHANGED <<fts5, db, hasFTS5, schema, rows, ftsIdx, now>>
  /\ IF ~db \/ T_SESSIONS \notin schema THEN ret' = Thrown("getSession", id)
     ELSE ret' = Returned("getSession", id,
                          IF id \in Ids THEN RowOf(id) ELSE NoSession)

\* the ids callers pass: every stored id and the id generateId(0) would give
\* now, which may exist, may never have existed or may have been deleted
IdArgs == Ids \cup { generateId(0) }

\* Partial<ChatSession> as passed to updateSession
Partial(t, c, g, a, p) ==
  [title |-> t, original_content |-> c, tags |-> g, agent_id |-> a,
   project_context |-> p]

UpdateInputs ==
  { Partial(tRust, UNDEFINED, UNDEFINED, <<"agent-b">>, UNDEFINED),
    Partial(UNDEFINED, tApi, JSONStringify(<<tApi>>), UNDEFINED, UNDEFINED),
    Partial(UNDEFINED, UNDEFINED, UNDEFINED, UNDEFINED, <<"proj2">>),
    Partial(UNDEFINED, UNDEFINED, UNDEFINED, UNDEFINED, UNDEFINED) }

\* the SET list updateSession builds: one entry per truthy supported field
UpdateFields(updates) ==
  { f \in { "title", "original_content", "tags" } : Truthy(updates[f]) }

\* the row after UPDATE chat_sessions SET <fields>, updated_at = ? WHERE id = ?
UpdatedRow(r, updates) ==
  [r EXCEPT !.title = IF Truthy(updates.title) THEN updates.title ELSE @,
            !.original_content = IF Truthy(updates.original_content)
                                   THEN updates.original_content ELSE @,
            !.tags = IF Truthy(updates.tags) THEN updates.tags ELSE @,
            !.updated_at = now]

\* trigger chat_sessions_au: UPDATE chat_sessions_fts SET ... WHERE id = new.id.
\* The WHERE scans the content table and finds the row; FTS5 then removes the
\* "old" tokens of that rowid, which for an external-content table it reads
\* from chat_sessions, where the row already holds the new values, and adds the
\* new tokens: the tokens indexed before stay, the new ones are added.
TriggerAU(idx, r) ==
  [d \in DOMAIN idx \cup { r.rowid } |->
     IF d = r.rowid
       THEN (IF d \in DOMAIN idx THEN idx[d] ELSE {}) \cup RowTokens(r)
       ELSE idx[d]]

\* trigger chat_sessions_ad: DELETE FROM chat_sessions_fts WHERE id = old.id.
\* The WHERE scans the content table, from which the row is already gone, so
\* it selects nothing and the tokens of the deleted row stay in the index.
TriggerAD(idx, r) == idx

\* updateSession(id, updates)
updateSession(id, updates) ==
  LET arg == [id |-> id, updates |-> updates]
  IN  /\ UNCHANGED <<fts5, db, hasFTS5, schema, now>>
      /\ IF ~db THEN /\ ret' = Thrown("updateSession", arg)
                     /\ UNCHANGED <<rows, ftsIdx>>
         ELSE IF UpdateFields(updates) = {}
           THEN /\ ret' = Returned("updateSession", arg, FALSE)
                /\ UNCHANGED <<rows, ftsIdx>>
         ELSE IF \/ T_SESSIONS \notin schema          \* no such table
                 \/ TR_AU \in schema /\ ~fts5         \* no such module: fts5
           THEN /\ ret' = Thrown("updateSession", arg)
                /\ UNCHANGED <<rows, ftsIdx>>
         ELSE IF id \notin Ids
           THEN /\ ret' = Returned("updateSession", arg, FALSE)
                /\ UNCHANGED <<rows, ftsIdx>>
         ELSE LET r == UpdatedRow(RowOf(id), updates)
              IN  /\ rows' = (rows \ { RowOf(id) }) \cup { r }
                  /\ ftsIdx' = IF TR_AU \in schema THEN TriggerAU(ftsIdx, r)
                                                    ELSE ftsIdx
                  /\ ret' = Returned("updateSession", arg, TRUE)

\* a DELETE that reports the selected rows and removes every row
DeleteWhereUnselective(op, arg, sel) ==
  /\ UNCHANGED <<fts5, db, hasFTS5, schema, now>>
  /\ IF ~db \/ T_SESSIONS \notin schema \/ (TR_AD \in schema /\ ~fts5)
       THEN /\ ret' = Thrown(op, arg)
            /\ UNCHANGED <<rows, ftsIdx>>
       ELSE /\ rows' = {}
            /\ ftsIdx' = ftsIdx
            /\ ret' = Returned(op, arg, Cardinality(sel))

\* DELETE FROM chat_sessions WHERE <sel>: the rows go, trigger chat_sessions_ad
\* runs for each, result.changes is returned
DeleteWhere(op, arg, sel) ==
  /\ UNCHANGED <<fts5, db, hasFTS5, schema, now>>
  /\ IF ~db \/ T_SESSIONS \notin schema \/ (TR_AD \in schema /\ ~fts5)
       THEN /\ ret' = Thrown(op, arg)
            /\ UNCHANGED <<rows, ftsIdx>>
       ELSE /\ rows' = rows \ sel
            /\ ftsIdx' = ftsIdx   \* TriggerAD for every row of sel
            /\ ret' = Returned(op, arg, Cardinality(sel))

\* deleteSession(id): result.changes > 0
deleteSession(id) ==
  /\ UNCHANGED <<fts5, db, hasFTS5, schema, now>>
  /\ IF ~db \/ T_SESSIONS \notin schema \/ (TR_AD \in schema /\ ~fts5)
       THEN /\ ret' = Thrown("deleteSession", id)
            /\ UNCHANGED <<rows, ftsIdx>>
       ELSE LET sel == { r \in rows : r.id = id }
            IN  /\ rows' = rows \ sel
                /\ ftsIdx' = IF TR_AD \in schema /\ sel # {}
                               THEN TriggerAD(ftsIdx, RowOf(id)) ELSE ftsIdx
                /\ ret' = Returned("deleteSession", id, Cardinality(sel) > 0)

\* Date.prototype.getDate(): day of the month, 1 on the first day
getDate(t) == t \div HalfDaysPerDay + 1

\* cutoffDate.setDate(cutoffDate.getDate() - daysOld); toISOString().
\* setDate converts its argument with ToIntegerOrInfinity, which truncates
\* towards zero, and keeps the time of day.  halfDays is daysOld in half days.
cutoffISO(halfDays) ==
  LET arg2  == HalfDaysPerDay * getDate(now) - halfDays   \* twice the argument
      trunc == IF arg2 >= 0 THEN arg2 \div HalfDaysPerDay
                            ELSE -((-arg2) \div HalfDaysPerDay)
  IN  (trunc - 1) * HalfDaysPerDay + (now % HalfDaysPerDay)

\* deleteOldSessions(daysOld)
deleteOldSessions(arg) ==
  DeleteWhere("cleanupSessions", arg,
              { r \in rows : r.created_at < cutoffISO(arg.olderThanDays) })

\* deleteSessionsByFilters({olderThanDays, agentType, projectContext})
deleteSessionsByFilters(arg, filters) ==
  DeleteWhere("cleanupSessions", arg,
              { r \in rows :
                  /\ r.created_at < cutoffISO(filters.olderThanDays)
                  /\ Truthy(filters.agentType) => r.agent_type = filters.agentType
                  /\ Truthy(filters.projectContext) =>
                       r.project_context = filters.projectContext })

\* request bodies of POST /sessions/cleanup; olderThanDays in half days
CleanupInputs ==
  [olderThanDays : {2, 3}, agentType : {UNDEFINED, <<"claude">>},
   projectContext : {UNDEFINED, <<"proj">>}]

\* cleanupSessions handler: validation, then the store method the filters pick
cleanupSessions(body) ==
  IF body.olderThanDays < HalfDaysPerDay           \* olderThanDays < 1: 400
    THEN /\ ret' = Returned("cleanupSessions", body, 400)
         /\ UNCHANGED <<fts5, db, hasFTS5, schema, rows, ftsIdx, now>>
  ELSE IF Truthy(body.agentType) /\ Truthy(body.projectContext)
    THEN deleteSessionsByFilters(body, body)
  ELSE IF Truthy(body.agentType)
    THEN deleteSessionsByFilters(body, [body EXCEPT !.projectContext = UNDEFINED])
  ELSE IF Truthy(body.projectContext)
    THEN deleteSessionsByFilters(body, [body EXCEPT !.agentType = UNDEFINED])
  ELSE deleteOldSessions(body)

\* ------------------------------------------------------------- searching
IsSpace(c)    == c = " "
IsNotSpace(c) == c # " "

\* The FTS5 query language on the queries of the model (letters and blanks):
\* barewords separated by blanks are AND-ed, the bareword OR separates
\* alternatives and binds weaker.  The result is the set of alternatives,
\* each a set of tokens; an empty alternative is a syntax error.
FtsQuery(q) ==
  LET w  == WordsOf(q, IsNotSpace)
      or == { k \in 1..Len(w) : w[k] = <<"O","R">> }
      lo(k) == IF \E o \in or : o < k THEN Max({ o \in or : o < k }) ELSE 0
      groups == { { j \in 1..Len(w) : j \notin or /\ lo(j) = b } :
                    b \in or \cup { 0 } }
  IN  { { toLowerCase(w[j]) : j \in g } : g \in groups }

FtsSyntaxError(q) == {} \in FtsQuery(q)

\* docids whose indexed tokens satisfy chat_sessions_fts MATCH q
FtsMatch(q) ==
  { d \in DOMAIN ftsIdx : \E alt \in FtsQuery(q) : alt \subseteq ftsIdx[d] }

\* chat_sessions cs JOIN chat_sessions_fts fts ON cs.id = fts.id: fts.id of a
\* matching docid is read from the content table, i.e. from the row of
\* chat_sessions whose rowid is the docid
FtsJoin(docs) == { r \in rows : r.rowid \in docs }

\* reading fts.id for a docid with no row in chat_sessions fails the query
\* (SQLITE_CORRUPT_VTAB, "database disk image is malformed")
FtsMissingRow(docs) == \E d \in docs : \A r \in rows : r.rowid # d

\* a tag condition without the double quotes around the tag
TagLikeRaw(tags, tag) == LikeContains(tags, tag)

\* tags LIKE '%"tag"%'
TagLike(tags, tag) == LikeContains(tags, <<"\"">> \o tag \o <<"\"">>)

\* SearchFilters
Filters(q, at, pc, tg, df, dt, lim, off) ==
  [query |-> q, agentType |-> at, projectContext |-> pc, tags |-> tg,
   dateFrom |-> df, dateTo |-> dt, limit |-> lim, offset |-> off]

\* the conditions with an upper date bound that leaves dateTo itself out
PassesFiltersHalfOpen(r, f) ==
  /\ Truthy(f.agentType) => r.agent_type = f.agentType
  /\ Truthy(f.projectContext) => r.project_context = f.projectContext
  /\ Truthy(f.dateFrom) => StrLE(f.dateFrom, toISOString(r.created_at))
  /\ Truthy(f.dateTo) => StrLT(toISOString(r.created_at), f.dateTo)
  /\ (f.tags # UNDEFINED /\ Len(f.tags) > 0) =>
       \E k \in 1..Len(f.tags) : TagLike(r.tags, f.tags[k])

\* the AND-ed conditions searchSessions appends to the WHERE clause; created_at
\* is the TEXT written by toISOString() and is compared as text
PassesFilters(r, f) ==
  /\ Truthy(f.agentType) => r.agent_type = f.agentType
  /\ Truthy(f.projectContext) => r.project_context = f.projectContext
  /\ Truthy(f.dateFrom) => StrLE(f.dateFrom, toISOString(r.created_at))
  /\ Truthy(f.dateTo) => StrLE(toISOString(r.created_at), f.dateTo)
  /\ (f.tags # UNDEFINED /\ Len(f.tags) > 0) =>
       \E k \in 1..Len(f.tags) : TagLike(r.tags, f.tags[k])

\* a fallback match that leaves original_content out
LikeAnyButContent(r, q) ==
  \/ LikeContains(r.title, q)
  \/ LikeContains(r.tags, q)

\* title LIKE ? OR original_content LIKE ? OR tags LIKE ?
LikeAny(r, q) ==
  \/ LikeContains(r.title, q)
  \/ LikeContains(r.original_content, q)
  \/ LikeContains(r.tags, q)

\* all orders in which the engine may return the set R of rows: ORDER BY rank
\* on the indexed path (the rank is not modelled: any order), ORDER BY
\* created_at DESC otherwise (rows of equal created_at in any order)
Orders(R, ranked) ==
  { o \in [1..Cardinality(R) -> R] :
      /\ \A i, j \in DOMAIN o : i # j => o[i] # o[j]
      /\ ranked \/ \A i, j \in DOMAIN o : i < j => o[i].created_at >= o[j].created_at }

\* LIMIT ? OFFSET ?
LimitOffset(o, lim, off) ==
  LET from == off + 1
      to   == IF lim > 0 THEN Min({ Len(o), off + lim }) ELSE Len(o)
  IN  SubSeq(o, from, to)

IdsOf(o) == [k \in DOMAIN o |-> o[k].id]

\* the tag conditions are appended as "tags LIKE ?" without a table name; in
\* the indexed query chat_sessions and chat_sessions_fts both have a column
\* tags, and the statement fails to prepare (ambiguous column name: tags)
AmbiguousTags(f) == f.tags # UNDEFINED /\ Len(f.tags) > 0

\* highlight(chat_sessions_fts, 1, '<mark>', '</mark>'): the text of column 1
\* (title) with the marks around the tokens in M, given as <<first, last>>
OpenMark  == <<"<","m","a","r","k",">">>
CloseMark == <<"<","/","m","a","r","k",">">>

RECURSIVE HighlightFrom(_, _, _)
HighlightFrom(s, i, M) ==
  IF i > Len(s) THEN <<>>
  ELSE (IF \E r \in M : r[1] = i THEN OpenMark ELSE <<>>) \o << s[i] >> \o
       (IF \E r \in M : r[2] = i THEN CloseMark ELSE <<>>) \o
       HighlightFrom(s, i + 1, M)

\* the values highlight() may give for row r matched by q.  FTS5 marks the
\* token positions it indexed for the title and cuts the text read from
\* chat_sessions at them: when the index holds exactly the tokens of the row,
\* the marked tokens are the title's tokens that are terms of the query; when
\* the index is out of step with the row, any of the title's tokens may be
\* marked.
Highlights(r, q) ==
  LET T == Runs(r.title, IsLetter)
      terms == UNION FtsQuery(q)
      hit == { t \in T : toLowerCase(SubSeq(r.title, t[1], t[2])) \in terms }
  IN  IF r.rowid \in DOMAIN ftsIdx /\ ftsIdx[r.rowid] = RowTokens(r)
        THEN { HighlightFrom(r.title, 1, hit) }
        ELSE { HighlightFrom(r.title, 1, M) : M \in SUBSET T }

\* the columns rank and matched_content of the k-th row of the rank order
\* o.  bm25 values are not modelled: the rank of a row is its place in the
\* rank order, written as a numeral.
RankColumns(o, hl) ==
  [k \in DOMAIN o |-> [rank |-> << Digits[k + 1] >>, matched_content |-> hl[o[k]]]]

\* NULL as rank, NULL as matched_content
NullColumns(o) ==
  [k \in DOMAIN o |-> [rank |-> NULL, matched_content |-> NULL]]

\* a returned SearchResult[]: out holds the ids in order, cols the columns
\* rank and matched_content of the same rows
ReturnedResults(op, arg, out, cols) ==
  [op |-> op, ok |-> TRUE, arg |-> arg, out |-> out, cols |-> cols]

\* searchSessions(filters); limit and offset 0 stand for "not given"
searchSessions(f) ==
  LET indexed == Truthy(f.query) /\ checkFTSTableExists
      docs    == FtsMatch(f.query)
      matched == IF indexed THEN FtsJoin(docs)
                 ELSE IF Truthy(f.query) THEN { r \in rows : LikeAny(r, f.query) }
                 ELSE rows
      hits    == { r \in matched : PassesFilters(r, f) }
      texts   == UNION { Highlights(r, f.query) : r \in hits }
  IN  /\ UNCHANGED <<fts5, db, hasFTS5, schema, rows, ftsIdx, now>>
      /\ IF \/ ~db
            \/ T_SESSIONS \notin schema               \* no such table
            \/ (indexed /\ (~fts5 \/ FtsSyntaxError(f.query) \/ FtsMissingRow(docs)))
            \/ (indexed /\ AmbiguousTags(f))
            \/ (f.offset > 0 /\ f.limit = 0)       \* OFFSET without LIMIT
         THEN ret' = Thrown("searchSessions", f)
         ELSE \E o \in Orders(hits, indexed) :
                IF indexed
                  THEN \E hl \in { h \in [hits -> texts] :
                                     \A r \in hits : h[r] \in Highlights(r, f.query) } :
                         ret' = ReturnedResults("searchSessions", f,
                                  IdsOf(LimitOffset(o, f.limit, f.offset)),
                                  LimitOffset(RankColumns(o, hl), f.limit, f.offset))
                  ELSE ret' = ReturnedResults("searchSessions", f,
                                IdsOf(LimitOffset(o, f.limit, f.offset)),
                                LimitOffset(NullColumns(o), f.limit, f.offset))

\* the stop words of extractKeyTermsFromContent
StopWords ==
  { <<"t","h","e">>, <<"a","n","d">>, <<"t","h","a","t">>, <<"t","h","i","s">>,
    <<"w","i","t","h">>, <<"f","r","o","m">>, <<"t","h","e","y">>,
    <<"h","a","v","e">>, <<"b","e","e","n">>, <<"s","a","i","d">>,
    <<"e","a","c","h">>, <<"w","h","i","c","h">>, <<"t","h","e","i","r">>,
    <<"w","i","l","l">>, <<"a","b","o","u","t">>, <<"w","o","u","l","d">>,
    <<"t","h","e","r","e">>, <<"c","o","u","l","d">>, <<"o","t","h","e","r">> }

\* extractKeyTermsFromContent(content): lower-cased words longer than 3
\* characters that are no stop words, by falling frequency (the sort is stable:
\* equal counts keep the order of first occurrence), the first 8
extractKeyTermsFromContent(content) ==
  LET all   == WordsOf(toLowerCase(content), IsLetter)
      keep  == { k \in DOMAIN all : Len(all[k]) > MinWordLen /\ all[k] \notin StopWords }
      words == { all[k] : k \in keep }
      count(w) == Cardinality({ k \in keep : all[k] = w })
      first(w) == Min({ k \in keep : all[k] = w })
      before(v, w) == count(v) > count(w) \/ (count(v) = count(w) /\ first(v) < first(w))
      pos(w) == 1 + Cardinality({ v \in words : before(v, w) })
      n == Min({ TopTerms, Cardinality(words) })
  IN  [k \in 1..n |-> CHOOSE w \in words : pos(w) = k]

\* findSimilarSessions(content, limit)
findSimilarSessions(content, limit) ==
  LET arg      == [content |-> content, limit |-> limit]
      keyTerms == extractKeyTermsFromContent(content)
      indexed  == checkFTSTableExists
      \* keyTerms.join(' OR '): a document matches when it holds one of the terms
      docs     == { d \in DOMAIN ftsIdx : \E k \in DOMAIN keyTerms : keyTerms[k] \in ftsIdx[d] }
      hits     == IF indexed THEN FtsJoin(docs)
                  ELSE { r \in rows : \E k \in DOMAIN keyTerms : LikeAny(r, keyTerms[k]) }
  IN  /\ UNCHANGED <<fts5, db, hasFTS5, schema, rows, ftsIdx, now>>
      /\ IF ~db THEN ret' = Thrown("findSimilarSessions", arg)
         ELSE IF Len(keyTerms) = 0 THEN ret' = Returned("findSimilarSessions", arg, <<>>)
         ELSE IF T_SESSIONS \notin schema \/ (indexed /\ (~fts5 \/ FtsMissingRow(docs)))
           THEN ret' = Thrown("findSimilarSessions", arg)
         ELSE \E o \in Orders(hits, indexed) :
                ret' = Returned("findSimilarSessions", arg, IdsOf(LimitOffset(o, limit, 0)))

tOde  == <<"o","d","e">>
tSD   == <<"s"," ","d">>
tOdes == <<"o","d","e","s">>
tThisDb == <<"t","h","i","s"," ","d","b">>

\* filters of the searches issued
SearchInputs ==
  { Filters(q, UNDEFINED, UNDEFINED, UNDEFINED, UNDEFINED, UNDEFINED, 0, 0) :
      q \in { tNode, tRust, tOde, tSD } }
  \cup
  { Filters(tNode, <<"claude">>, UNDEFINED, UNDEFINED, UNDEFINED, UNDEFINED, 0, 0),
    Filters(UNDEFINED, UNDEFINED, <<"proj">>, UNDEFINED, UNDEFINED, UNDEFINED, 0, 0),
    Filters(UNDEFINED, UNDEFINED, UNDEFINED, <<tApi, tDb>>, UNDEFINED, UNDEFINED, 0, 0),
    Filters(tNode, UNDEFINED, UNDEFINED, UNDEFINED, UNDEFINED, UNDEFINED, 1, 0),
    Filters(UNDEFINED, UNDEFINED, UNDEFINED, UNDEFINED, UNDEFINED, UNDEFINED, 1, 1) }

FindSimilarInputs == { tOdes, tNode, tThisDb }

\* the store at one instant: create, read, update, delete
Next ==
  \/ initialize
  \/ \E session \in CreateInputs, rnd \in Rand : createSession(session, rnd)
  \/ \E id \in IdArgs : getSession(id)
  \/ \E id \in IdArgs, updates \in UpdateInputs : updateSession(id, updates)
  \/ \E id \in IdArgs : deleteSession(id)

Spec == Init /\ [][Next]_vars

\* the store over time: timestamps and the clean-up by age
NextTime ==
  \/ initialize
  \/ Tick
  \/ \E session \in CreateInputs, rnd \in Rand : createSession(session, rnd)
  \/ \E id \in IdArgs, updates \in UpdateInputs : updateSession(id, updates)
  \/ \E body \in CleanupInputs : cleanupSessions(body)

SpecTime == Init /\ [][NextTime]_vars

\* the store with its search engine
NextSearch ==
  \/ initialize
  \/ \E session \in CreateInputs, rnd \in Rand : createSession(session, rnd)
  \/ \E id \in IdArgs, updates \in UpdateInputs : updateSession(id, updates)
  \/ \E id \in IdArgs : deleteSession(id)
  \/ \E f \in SearchInputs : searchSessions(f)
  \/ \E content \in FindSimilarInputs : findSimilarSessions(content, 5)

SpecSearch == Init /\ [][NextSearch]_vars


\* ------------------------------------------------ GET /api/sessions/search
DefaultLimit == 10     \* limit = '10'
MaxLimit     == 100    \* Number(query.limit) > 100
MaxSearchTags == 20    \* tags.length > 20
NaN == -1              \* the not-a-number of Number() and parseInt(); no
                       \* number the model parses is negative

IsDigits(s) == Len(s) > 0 /\ \A i \in DOMAIN s : s[i] \in Range(Digits)

RECURSIVE DecimalValue(_)
DecimalValue(s) ==
  IF s = <<>> THEN 0
  ELSE 10 * DecimalValue(SubSeq(s, 1, Len(s) - 1)) + DigitValue[s[Len(s)]]

\* Number(s) for a string of the model: '' is 0, digits their value, else NaN
Number(s) == IF s = <<>> THEN 0 ELSE IF IsDigits(s) THEN DecimalValue(s) ELSE NaN

\* parseInt(s, 10): the value of the leading digits, NaN when there are none
parseInt(s) ==
  LET n == Max({ k \in 0..Len(s) : \A i \in 1..k : s[i] \in Range(Digits) })
  IN  IF n = 0 THEN NaN ELSE DecimalValue(SubSeq(s, 1, n))

\* String.prototype.split(sep)
RECURSIVE Split(_, _)
Split(s, sep) ==
  IF \A i \in DOMAIN s : s[i] # sep THEN << s >>
  ELSE LET k == Min({ i \in DOMAIN s : s[i] = sep })
       IN  << SubSeq(s, 1, k - 1) >> \o Split(SubSeq(s, k + 1, Len(s)), sep)

\* isValidISODate on the date strings of the model: a date part that names a
\* day of the month, alone or followed by a time part
isValidISODate(s) ==
  /\ Len(s) \in {1, 2}
  /\ s[1] \in Range(Digits) /\ DigitValue[s[1]] >= 1
  /\ Len(s) = 2 => s[2] \in { Digits[k] : k \in 1..HalfDaysPerDay }

\* req.query of a search request
SearchQuery(q, at, pc, tg, df, dt, lim, off) ==
  [query |-> q, agentType |-> at, projectContext |-> pc, tags |-> tg,
   dateFrom |-> df, dateTo |-> dt, limit |-> lim, offset |-> off]

\* validateSearchParams(query): the error message, or "null"
validateSearchParams(query) ==
  IF Truthy(query.limit) /\ (\/ Number(query.limit) = NaN
                             \/ Number(query.limit) < 1
                             \/ Number(query.limit) > MaxLimit)
    THEN "limit must be a number between 1 and 100"
  ELSE IF Truthy(query.offset) /\ (Number(query.offset) = NaN \/ Number(query.offset) < 0)
    THEN "offset must be a non-negative number"
  ELSE IF Truthy(query.agentType) /\ query.agentType \notin AgentTypes
    THEN "agentType must be one of: claude, cursor, other"
  ELSE IF Truthy(query.dateFrom) /\ ~isValidISODate(query.dateFrom)
    THEN "dateFrom must be a valid ISO date string"
  ELSE IF Truthy(query.dateTo) /\ ~isValidISODate(query.dateTo)
    THEN "dateTo must be a valid ISO date string"
  ELSE IF Truthy(query.tags) /\ Len(Split(query.tags, ",")) > MaxSearchTags
    THEN "maximum of 20 tags allowed in search"
  ELSE "null"

\* the decimal text of a number below 100
ToText(n) == IF n < 10 THEN << Digits[n + 1] >>
             ELSE << Digits[(n \div 10) + 1], Digits[(n % 10) + 1] >>

\* searchFilters as the handler builds them from req.query
searchFilters(query) ==
  Filters(query.query, query.agentType, query.projectContext,
          IF Truthy(query.tags) THEN Split(query.tags, ",") ELSE UNDEFINED,
          query.dateFrom, query.dateTo,
          parseInt(IF query.limit = UNDEFINED THEN ToText(DefaultLimit) ELSE query.limit),
          parseInt(IF query.offset = UNDEFINED THEN << "0" >> ELSE query.offset))

\* searchSessions handler: 400 on a validation error, else the store's search
\* (the rows are answered with their tags parsed)
searchSessionsHandler(query) ==
  IF validateSearchParams(query) # "null"
    THEN /\ ret' = Returned("validateSearchParams", query, validateSearchParams(query))
         /\ UNCHANGED <<fts5, db, hasFTS5, schema, rows, ftsIdx, now>>
    ELSE searchSessions(searchFilters(query))

tMongodb == <<"m","o","n","g","o","d","b">>
tNodes   == <<"n","o","d","e","s">>

\* sessions created for the searches below: one tagged db, one tagged mongodb
TaggedInputs ==
  { [title |-> tNode, agent_id |-> <<"agent-a">>, agent_type |-> <<"claude">>,
     project_context |-> <<"proj">>, original_content |-> tNodesDb,
     tags |-> JSONStringify(<<tDb>>)],
    [title |-> tRust, agent_id |-> <<"agent-b">>, agent_type |-> <<"other">>,
     project_context |-> NULL, original_content |-> tNodesApi,
     tags |-> JSONStringify(<<tMongodb>>)] }

\* the search requests issued
SearchRequests ==
  { SearchQuery(UNDEFINED, UNDEFINED, UNDEFINED, UNDEFINED, df, dt, UNDEFINED, UNDEFINED) :
      df \in { UNDEFINED, <<"1","0">> }, dt \in { UNDEFINED, <<"1","0">>, <<"1">> } }
  \cup
  { SearchQuery(q, UNDEFINED, UNDEFINED, tg, UNDEFINED, UNDEFINED, UNDEFINED, UNDEFINED) :
      q \in { UNDEFINED, tNodes, tNode }, tg \in { UNDEFINED, tDb } }
  \cup
  { SearchQuery(UNDEFINED, UNDEFINED, UNDEFINED, UNDEFINED, UNDEFINED, UNDEFINED, lim, off) :
      lim \in { <<>>, <<"1">>, <<"0">> }, off \in { UNDEFINED, <<"1">> } }

\* the store with dated, tagged sessions and the search route
NextQuery ==
  \/ initialize
  \/ Tick
  \/ \E session \in TaggedInputs, rnd \in Rand : createSession(session, rnd)
  \/ \E id \in IdArgs : deleteSession(id)
  \/ \E query \in SearchRequests : searchSessionsHandler(query)

SpecQuery == Init /\ [][NextQuery]_vars

\* ------------------------------------------------ listings, bulk deletes
\* ORDER BY created_at DESC read off idx_chat_sessions_created_at backwards
\* (the plan when no WHERE narrows the scan): rows of equal created_at come in
\* descending rowid order
IndexScanDesc(R) ==
  CHOOSE o \in [1..Cardinality(R) -> R] :
    \A i, j \in DOMAIN o :
      i < j => \/ o[i].created_at > o[j].created_at
               \/ (o[i].created_at = o[j].created_at /\ o[i].rowid > o[j].rowid)

\* ORDER BY created_at DESC through a sorter (the plan when an index on the
\* WHERE column picks the rows): rows of equal created_at stay in the order
\* the index gave them, ascending rowid
SorterDesc(R) ==
  CHOOSE o \in [1..Cardinality(R) -> R] :
    \A i, j \in DOMAIN o :
      i < j => \/ o[i].created_at > o[j].created_at
               \/ (o[i].created_at = o[j].created_at /\ o[i].rowid < o[j].rowid)

\* LIMIT ?: a negative limit is no limit
Limit(o, lim) == IF lim < 0 THEN o ELSE SubSeq(o, 1, Min({ Len(o), lim }))

\* getRecentSessions(limit, agentType)
getRecentSessions(limit, agentType) ==
  LET arg == [limit |-> limit, agentType |-> agentType]
      o   == IF Truthy(agentType)
               THEN SorterDesc({ r \in rows : r.agent_type = agentType })
               ELSE IndexScanDesc(rows)
  IN  /\ UNCHANGED <<fts5, db, hasFTS5, schema, rows, ftsIdx, now>>
      /\ IF ~db \/ T_SESSIONS \notin schema THEN ret' = Thrown("getRecentSessions", arg)
         ELSE ret' = Returned("getRecentSessions", arg, IdsOf(Limit(o, limit)))

\* getSessionsByAgent(agentId, limit)
getSessionsByAgent(agentId, limit) ==
  LET arg == [agentId |-> agentId, limit |-> limit]
      o   == SorterDesc({ r \in rows : r.agent_id = agentId })
  IN  /\ UNCHANGED <<fts5, db, hasFTS5, schema, rows, ftsIdx, now>>
      /\ IF ~db \/ T_SESSIONS \notin schema THEN ret' = Thrown("getSessionsByAgent", arg)
         ELSE ret' = Returned("getSessionsByAgent", arg, IdsOf(Limit(o, limit)))

\* deleteSessions(ids): DELETE ... WHERE id IN (?, ...), 0 for the empty list
deleteSessions(ids) ==
  IF db /\ Len(ids) = 0
    THEN /\ ret' = Returned("deleteSessions", ids, 0)
         /\ UNCHANGED <<fts5, db, hasFTS5, schema, rows, ftsIdx, now>>
    ELSE DeleteWhere("deleteSessions", ids, { r \in rows : r.id \in Range(ids) })

\* deleteAllSessions(): DELETE FROM chat_sessions
deleteAllSessions ==
  DeleteWhere("deleteAllSessions", <<>>, rows)

\* deleteSessionsByAgent(agentId): DELETE ... WHERE agent_id = ?
deleteSessionsByAgent(agentId) ==
  DeleteWhere("deleteSessionsByAgent", agentId,
              { r \in rows : r.agent_id = agentId })

\* deleteSessionsByProject(projectContext): DELETE ... WHERE project_context = ?
deleteSessionsByProject(projectContext) ==
  DeleteWhere("deleteSessionsByProject", projectContext,
              { r \in rows : r.project_context = projectContext })

\* the id lists, agents, projects and limits callers pass
IdLists == { <<>> } \cup { << a >> : a \in IdArgs }
             \cup { << a, b >> : a \in IdArgs, b \in Ids }
AgentIds == { <<"agent-a">>, <<"agent-b">>, <<"agent-c">> }
Projects == { <<"proj">>, <<"proj2">> }
Limits   == { 1, 2 }

\* searches of both kinds after deletions: by text and by filter alone
ListSearches ==
  { Filters(tNode, UNDEFINED, UNDEFINED, UNDEFINED, UNDEFINED, UNDEFINED, 0, 0),
    Filters(UNDEFINED, <<"claude">>, UNDEFINED, UNDEFINED, UNDEFINED, UNDEFINED, 0, 0) }

\* the store with its listings and bulk deletes
NextList ==
  \/ initialize
  \/ Tick
  \/ \E session \in CreateInputs, rnd \in Rand : createSession(session, rnd)
  \/ \E id \in IdArgs : getSession(id)
  \/ \E id \in IdArgs : deleteSession(id)
  \/ \E ids \in IdLists : deleteSessions(ids)
  \/ deleteAllSessions
  \/ \E agentId \in AgentIds : deleteSessionsByAgent(agentId)
  \/ \E projectContext \in Projects : deleteSessionsByProject(projectContext)
  \/ \E limit \in Limits, agentType \in { UNDEFINED, <<"claude">> } :
       getRecentSessions(limit, agentType)
  \/ \E agentId \in AgentIds, limit \in Limits : getSessionsByAgent(agentId, limit)
  \/ \E f \in ListSearches : searchSessions(f)

SpecList == Init /\ [][NextList]_vars

\* ------------------------------------------------ the store across runs
\* new DatabaseBetter(dbPath) in a new process: the connection is not open
\* yet, the database file (schema, rows, index) is as the last run left it,
\* and the SQLite this run is linked with may or may not have the fts5 module
restart(available) ==
  /\ db' = FALSE
  /\ hasFTS5' = FALSE
  /\ fts5' = available
  /\ ret' = Returned("new", <<>>, <<>>)
  /\ UNCHANGED <<schema, rows, ftsIdx, now>>

\* searches by text and by filter alone, without limit
EnvSearches ==
  { Filters(tNode, UNDEFINED, UNDEFINED, UNDEFINED, UNDEFINED, UNDEFINED, 0, 0),
    Filters(UNDEFINED, <<"claude">>, UNDEFINED, UNDEFINED, UNDEFINED, UNDEFINED, 0, 0) }

\* the store over several runs of the server
NextEnv ==
  \/ initialize
  \/ \E available \in BOOLEAN : restart(available)
  \/ \E session \in CreateInputs, rnd \in Rand : createSession(session, rnd)
  \/ \E id \in IdArgs : getSession(id)
  \/ \E id \in IdArgs, updates \in UpdateInputs : updateSession(id, updates)
  \/ \E id \in IdArgs : deleteSession(id)
  \/ \E f \in EnvSearches : searchSessions(f)
  \/ findSimilarSessions(tNode, 5)

SpecEnv == Init /\ [][NextEnv]_vars

\* ------------------------------------- POST /api/sessions, PUT /sessions/:id
\* JSON values of a request body, by kind: a string holds its text, an array
\* its elements
Str(text)  == [kind |-> "string", val |-> text]
Arr(elems) == [kind |-> "array", val |-> elems]
JsNull     == [kind |-> "null", val |-> <<>>]
JsUndef    == [kind |-> "undefined", val |-> <<>>]

\* ToBoolean
JsTruthy(x) ==
  IF x.kind = "string" THEN x.val # <<>> ELSE x.kind = "array"

\* typeof x === 'string'
IsString(x) == x.kind = "string"

\* JSON.stringify of a string, null, or an array of these
RECURSIVE stringify(_)
stringify(x) ==
  IF x.kind = "string" THEN <<"\"">> \o x.val \o <<"\"">>
  ELSE IF x.kind = "array"
    THEN LET RECURSIVE join(_)
             join(a) == IF a = <<>> THEN <<>>
                        ELSE stringify(a[1]) \o
                             (IF Len(a) = 1 THEN <<>> ELSE <<",">> \o join(Tail(a)))
         IN  <<"[">> \o join(x.val) \o <<"]">>
  ELSE <<"n","u","l","l">>

\* the value better-sqlite3 binds for a body value: a string as its text,
\* null and undefined as NULL (undefined stays distinct until bound)
Bound(x) ==
  IF x.kind = "string" THEN x.val
  ELSE IF x.kind = "undefined" THEN UNDEFINED
  ELSE NULL

\* the body of POST /api/sessions
CreateBody(title, agentId, agentType, chatContent, projectContext, tags) ==
  [title |-> title, agentId |-> agentId, agentType |-> agentType,
   chatContent |-> chatContent, projectContext |-> projectContext, tags |-> tags]

\* a value the list ['claude', 'cursor', 'other'] includes
ValidAgentTypes == { Str(<<"claude">>), Str(<<"cursor">>), Str(<<"other">>) }

MaxTitleLen   == 500    \* data.title.length > 500
MaxProjectLen == 1000   \* data.projectContext.length > 1000
MaxTags       == 50     \* data.tags.length > 50

\* validateSessionData(data) as the create handler calls it (isUpdate false):
\* the error message, or "null".  The size limit of chatContent is beyond the
\* texts of the model.
validateSessionData(data) ==
  IF ~JsTruthy(data.agentId) \/ ~IsString(data.agentId)
    THEN "agentId is required and must be a string"
  ELSE IF ~JsTruthy(data.agentType) \/ data.agentType \notin ValidAgentTypes
    THEN "agentType must be one of: claude, cursor, other"
  ELSE IF ~JsTruthy(data.chatContent) \/ ~IsString(data.chatContent)
    THEN "chatContent is required and must be a string"
  ELSE IF JsTruthy(data.title) /\
          (~IsString(data.title) \/ Len(data.title.val) > MaxTitleLen)
    THEN "title must be a string with maximum length of 500 characters"
  ELSE IF JsTruthy(data.projectContext) /\
          (~IsString(data.projectContext) \/ Len(data.projectContext.val) > MaxProjectLen)
    THEN "projectContext must be a string with maximum length of 1000 characters"
  ELSE IF JsTruthy(data.tags) /\
          (data.tags.kind # "array" \/
           \E k \in DOMAIN data.tags.val : ~IsString(data.tags.val[k]))
    THEN "tags must be an array of strings"
  ELSE IF JsTruthy(data.tags) /\ Len(data.tags.val) > MaxTags
    THEN "maximum of 50 tags allowed"
  ELSE "null"

\* `Chat Session - ${new Date().toISOString().split('T')[0]}`
DefaultTitle ==
  <<"C","h","a","t"," ","S","e","s","s","i","o","n"," ","-"," ">> \o
  << toISOString(now)[1] >>

\* createSession handler: 400 with the validation error, else the session
\* data built from the body goes to the store; tags defaults to [] only when
\* the body has none
createSessionHandler(body, rnd) ==
  IF validateSessionData(body) # "null"
    THEN /\ ret' = Returned("validateSessionData", body, validateSessionData(body))
         /\ UNCHANGED <<fts5, db, hasFTS5, schema, rows, ftsIdx, now>>
    ELSE createSession(
           [title |-> IF JsTruthy(body.title) THEN body.title.val ELSE DefaultTitle,
            agent_id |-> body.agentId.val,
            agent_type |-> body.agentType.val,
            project_context |-> IF body.projectContext.kind = "string"
                                  THEN body.projectContext.val ELSE NULL,
            original_content |-> body.chatContent.val,
            tags |-> stringify(IF body.tags.kind = "undefined" THEN Arr(<<>>)
                               ELSE body.tags)],
           rnd)

\* the body of PUT /api/sessions/:id
UpdateBody(title, original_content, tags, agent_type) ==
  [title |-> title, original_content |-> original_content, tags |-> tags,
   agent_type |-> agent_type]

\* updateSession handler: an array of tags is serialized, everything else
\* goes to the store as it came
updateSessionHandler(id, body) ==
  updateSession(id,
    [title |-> Bound(body.title),
     original_content |-> Bound(body.original_content),
     tags |-> IF JsTruthy(body.tags) /\ body.tags.kind = "array"
                THEN stringify(body.tags) ELSE Bound(body.tags),
     agent_type |-> Bound(body.agent_type),
     agent_id |-> UNDEFINED, project_context |-> UNDEFINED])

\* request bodies of the create route: a listed agent type with tags absent,
\* an array, null and a bare string; an agent type outside the list; no agent
\* type; empty content
CreateBodies ==
  { CreateBody(Str(tNode), Str(<<"agent-a">>), Str(<<"claude">>), Str(tNodesDb),
               JsUndef, tg) :
      tg \in { JsUndef, Arr(<< Str(tDb) >>), JsNull, Str(tDb) } }
  \cup
  { CreateBody(Str(tNode), Str(<<"agent-a">>), at, Str(tNodesDb), JsUndef, JsUndef) :
      at \in { Str(<<"gpt">>), JsUndef } }
  \cup
  { CreateBody(Str(tNode), Str(<<"agent-a">>), Str(<<"claude">>), Str(<<>>),
               JsUndef, JsUndef) }

\* request bodies of the update route: a title, tags as an array and as a
\* bare string, an agent type outside the list
UpdateBodies ==
  { UpdateBody(Str(tRust), JsUndef, JsUndef, Str(<<"gpt">>)),
    UpdateBody(JsUndef, JsUndef, Arr(<< Str(tApi) >>), JsUndef),
    UpdateBody(JsUndef, JsUndef, Str(tApi), Str(<<"gpt">>)),
    UpdateBody(JsUndef, JsUndef, JsUndef, Str(<<"gpt">>)) }

\* a session handed to the store directly with an agent type outside the list
UnlistedAgentInput ==
  [title |-> tRust, agent_id |-> <<"agent-b">>, agent_type |-> <<"gpt">>,
   project_context |-> NULL, original_content |-> tNodesApi,
   tags |-> JSONStringify(<<>>)]

\* bodies of the cleanup route: half a day (refused) and one day
RouteCleanups ==
  [olderThanDays : {1, 2}, agentType : {UNDEFINED}, projectContext : {UNDEFINED}]

\* the create, update and cleanup routes, and the store's own check of
\* agent_type
NextRoute ==
  \/ initialize
  \/ \E body \in RouteCleanups : cleanupSessions(body)
  \/ \E body \in CreateBodies, rnd \in Rand : createSessionHandler(body, rnd)
  \/ \E id \in IdArgs, body \in UpdateBodies : updateSessionHandler(id, body)
  \/ \E rnd \in Rand : createSession(UnlistedAgentInput, rnd)
  \/ \E id \in IdArgs : getSession(id)

SpecRoute == Init /\ [][NextRoute]_vars

\* ------------------------------------------------ start-up with failures
\* where a statement of initialize() fails (disk full, I/O error, file locked
\* by another process): opening the file, a pragma, CREATE VIRTUAL TABLE, or
\* one of the three CREATE TRIGGER statements, which exec() runs one by one
FtsFaults == { "fts-table", "trigger-ai", "trigger-ad", "trigger-au" }
Faults    == { "none", "open", "pragma" } \cup FtsFaults

\* the triggers exec() has created when the statement named by fault fails
TriggersBefore(fault) ==
  IF fault = "trigger-ad" THEN { TR_AI }
  ELSE IF fault = "trigger-au" THEN { TR_AI, TR_AD }
  ELSE {}

\* createTables(hasFTS5) with a failing statement: an error of CREATE VIRTUAL
\* TABLE or of createFTSTriggers() is caught and logged ("Continuing without
\* FTS5..."), what was created before it stays
createTablesFailing(s, has, fault) ==
  LET base == s \cup { T_SESSIONS } \cup Indexes
  IN  IF fault = "fts-table" THEN base
      ELSE base \cup { T_FTS } \cup TriggersBefore(fault)

\* initialize() when the statement named by fault fails.  this.db is assigned
\* as soon as the file is open and stays assigned when a later statement
\* throws; the catch block logs and rethrows.
initializeWith(fault) ==
  IF fault = "none" THEN initialize
  ELSE IF fault = "open"
    THEN /\ ret' = Thrown("initialize", fault)
         /\ UNCHANGED <<fts5, db, hasFTS5, schema, rows, ftsIdx, now>>
  ELSE IF fault = "pragma"
    THEN /\ db' = TRUE
         /\ ret' = Thrown("initialize", fault)
         /\ UNCHANGED <<fts5, hasFTS5, schema, rows, ftsIdx, now>>
  ELSE LET s == createTablesFailing(schema, TRUE, fault)
       IN  /\ checkFTS5Support         \* the statements run only after the probe
           /\ db' = TRUE
           /\ hasFTS5' = TRUE
           /\ schema' = s
           /\ ftsIdx' = initializeFTSIndex(s, ftsIdx, rows)
           /\ ret' = Returned("initialize", fault, <<>>)
           /\ UNCHANGED <<fts5, rows, now>>

\* startServer(): await chatContextServer.initialize(), then mount the routes
\* and listen; when initialize() throws, process.exit(1): the process and its
\* handle are gone and nothing is served
startServer(fault) ==
  IF fault \in { "open", "pragma" }
    THEN /\ db' = FALSE
         /\ hasFTS5' = FALSE
         /\ ret' = Thrown("startServer", fault)
         /\ UNCHANGED <<fts5, schema, rows, ftsIdx, now>>
    ELSE initializeWith(fault)

\* ChatContextServer.shutdown(): db.close().  this.db stays assigned, but on a
\* closed connection every statement throws, as on a store never opened: the
\* handle counts as not open
shutdown ==
  /\ db' = FALSE
  /\ ret' = Returned("close", <<>>, <<>>)
  /\ UNCHANGED <<fts5, hasFTS5, schema, rows, ftsIdx, now>>

Signals == { "SIGTERM", "SIGINT" }

\* process.on(signal): server.close(() => process.exit(0)).  Requests in
\* flight finish before the callback runs; the handler calls neither
\* shutdown() nor close(); with the process its handle is gone.
onSignal(signal) ==
  /\ db' = FALSE
  /\ hasFTS5' = FALSE
  /\ ret' = Returned(signal, <<>>, <<>>)
  /\ UNCHANGED <<fts5, schema, rows, ftsIdx, now>>

\* the store and the server over several runs in which start-up may fail
\* the calls made between start-up and exit: one session, one change of its
\* title, one search by text
BootCreates  == { session \in CreateInputs : session.title = tNode }
BootUpdates  == { updates \in UpdateInputs : updates.title = tRust }
BootSearches == { f \in EnvSearches : f.query = tNode }

NextBoot ==
  \/ shutdown
  \/ \E signal \in Signals : onSignal(signal)
  \/ \E available \in BOOLEAN : restart(available)
  \/ \E fault \in Faults : initializeWith(fault)
  \/ \E fault \in Faults : startServer(fault)
  \/ \E session \in BootCreates : createSession(session, 0)
  \/ \E id \in IdArgs : getSession(id)
  \/ \E id \in IdArgs, updates \in BootUpdates : updateSession(id, updates)
  \/ \E id \in IdArgs : deleteSession(id)
  \/ \E f \in BootSearches : searchSessions(f)

SpecBoot == Init /\ [][NextBoot]_vars

\* ------------------------------------------- ChatContentProcessor titles
MaxTitle == 50        \* title.length > 50
CutTitle == 47        \* title.substring(0, 47)

\* String.prototype.toUpperCase, one character
UpperOf ==
  [c \in Letters |->
     IF c \in Range(LowerAZ)
       THEN UpperAZ[CHOOSE i \in DOMAIN LowerAZ : LowerAZ[i] = c]
       ELSE c]

ToUpperChar(c) == IF c \in Letters THEN UpperOf[c] ELSE c

toUpperCase(s) == [i \in 1..Len(s) |-> ToUpperChar(s[i])]

\* topic.charAt(0).toUpperCase() + topic.slice(1)
Capitalize(topic) ==
  IF Len(topic) = 0 THEN <<>>
  ELSE << ToUpperChar(topic[1]) >> \o SubSeq(topic, 2, Len(topic))

\* the shortlist of generateTitle
PrimaryTopics ==
  { <<"j","a","v","a","s","c","r","i","p","t">>, <<"t","y","p","e","s","c","r","i","p","t">>, <<"p","y","t","h","o","n">>, <<"r","e","a","c","t">>, <<"n","o","d","e">>, <<"e","x","p","r","e","s","s">>, <<"d","a","t","a","b","a","s","e">>, <<"a","p","i">> }

tPlain  == <<"p","l","a","i","n">>
tInline == <<"i","n","l","i","n","e">>
tSep    == <<" ","+"," ">>
tDiscussion  == <<" ","D","i","s","c","u","s","s","i","o","n">>
tDevelopment == <<"D","e","v","e","l","o","p","m","e","n","t">>
tChatSession == <<"C","h","a","t"," ","S","e","s","s","i","o","n"," ","-"," ">>
tEllipsis    == <<".",".",".">>

\* [...new Set(xs)]: the distinct elements in the order of first occurrence
RECURSIVE Distinct(_)
Distinct(xs) ==
  IF Len(xs) = 0 THEN <<>>
  ELSE LET init == Distinct(SubSeq(xs, 1, Len(xs) - 1))
           x    == xs[Len(xs)]
       IN  IF x \in Range(init) THEN init ELSE Append(init, x)

\* parts.join(sep)
RECURSIVE Join(_, _)
Join(parts, sep) ==
  IF Len(parts) = 0 THEN <<>>
  ELSE IF Len(parts) = 1 THEN parts[1]
  ELSE parts[1] \o sep \o Join(Tail(parts), sep)

\* xs.slice(0, n)
Slice(xs, n) == SubSeq(xs, 1, Min({ n, Len(xs) }))

\* generateTitle(keyTopics, codeSnippets)
generateTitleUncut(keyTopics, codeSnippets) ==
  LET primaryTopics == SelectSeq(keyTopics, LAMBDA topic : topic \in PrimaryTopics)
      languages == Distinct([k \in DOMAIN codeSnippets |-> codeSnippets[k].language])
      lang   == IF Len(languages) > 0 /\ languages[1] # tPlain /\ languages[1] # tInline
                  THEN << toUpperCase(languages[1]) >> ELSE <<>>
      chosen == IF Len(primaryTopics) > 0 THEN Slice(primaryTopics, 2)
                ELSE IF Len(keyTopics) > 0 THEN Slice(keyTopics, 2) ELSE <<>>
      parts  == lang \o [k \in DOMAIN chosen |-> Capitalize(chosen[k])]
      titleParts == IF Len(parts) = 0 THEN << tDevelopment >> ELSE parts
  IN  IF Len(keyTopics) = 0 /\ Len(codeSnippets) = 0
        THEN tChatSession \o << toISOString(now)[1] >>
        ELSE Join(titleParts, tSep) \o tDiscussion

generateTitle(keyTopics, codeSnippets) ==
  LET primaryTopics == SelectSeq(keyTopics, LAMBDA topic : topic \in PrimaryTopics)
      languages == Distinct([k \in DOMAIN codeSnippets |-> codeSnippets[k].language])
      lang   == IF Len(languages) > 0 /\ languages[1] # tPlain /\ languages[1] # tInline
                  THEN << toUpperCase(languages[1]) >> ELSE <<>>
      chosen == IF Len(primaryTopics) > 0 THEN Slice(primaryTopics, 2)
                ELSE IF Len(keyTopics) > 0 THEN Slice(keyTopics, 2) ELSE <<>>
      parts  == lang \o [k \in DOMAIN chosen |-> Capitalize(chosen[k])]
      titleParts == IF Len(parts) = 0 THEN << tDevelopment >> ELSE parts
      title  == Join(titleParts, tSep) \o tDiscussion
  IN  IF Len(keyTopics) = 0 /\ Len(codeSnippets) = 0
        \* 'Chat Session - ' + the date part of toISOString()
        THEN tChatSession \o << toISOString(now)[1] >>
        ELSE IF Len(title) > MaxTitle THEN SubSeq(title, 1, CutTitle) \o tEllipsis
        ELSE title

\* processContent(chatContent), its title: keyTopics and codeSnippets stand for
\* what extractKeyTopics and extractCodeSnippets found in the content
processContent(keyTopics, codeSnippets) ==
  /\ ret' = Returned("generateTitle",
                     [keyTopics |-> keyTopics, codeSnippets |-> codeSnippets],
                     generateTitle(keyTopics, codeSnippets))
  /\ UNCHANGED <<fts5, db, hasFTS5, schema, rows, ftsIdx, now>>

\* topics found: two of the shortlist, one other keyword, one quoted term of
\* 29 characters
tReact  == <<"r","e","a","c","t">>
tRustLc == <<"r","u","s","t">>
tQuoted == <<"i","n","c","r","e","m","e","n","t","a","l"," ","s","t","a","t","i","c"," ","g","e","n","e","r","a","t","i","o","n">>
MaxTopics == 3
Topics == { tApi, tReact, tRustLc, tQuoted }

\* extractKeyTopics returns the elements of a Set: no topic twice
KeyTopicLists ==
  { ts \in UNION { [1..n -> Topics] : n \in 0..MaxTopics } :
      \A i, j \in DOMAIN ts : ts[i] = ts[j] => i = j }

tPython == <<"p","y","t","h","o","n">>
Languages == { tPlain, tInline, tPython }
MaxSnippets == 2
SnippetLists ==
  UNION { [1..n -> [language : Languages]] : n \in 0..MaxSnippets }

NextTitle ==
  \/ Tick
  \/ \E keyTopics \in KeyTopicLists, codeSnippets \in SnippetLists :
       processContent(keyTopics, codeSnippets)

SpecTitle == Init /\ [][NextTitle]_vars

\* ------------------------------------------------------ the router's routes
\* a path or a route pattern, cut at its slashes: the text between one "/" and
\* the next (a path that does not start with "/" has no segments)
SplitPath(path) ==
  LET slashes == { i \in 1..Len(path) : path[i] = "/" }
      n       == Cardinality(slashes)
      at(k)   == IF k = n + 1 THEN Len(path) + 1
                 ELSE CHOOSE i \in slashes : Cardinality({ j \in slashes : j < i }) = k - 1
  IN  IF Len(path) = 0 \/ path[1] # "/" THEN <<>>
      ELSE [k \in 1..n |-> SubSeq(path, at(k) + 1, at(k + 1) - 1)]

\* express.Router() is not strict: one trailing "/" is optional
Segments(path) ==
  LET segs == SplitPath(path)
  IN  IF Len(segs) > 1 /\ segs[Len(segs)] = <<>>
        THEN SubSeq(segs, 1, Len(segs) - 1) ELSE segs

\* a pattern segment ":name" is a parameter
IsParam(seg) == Len(seg) > 0 /\ seg[1] = ":"

\* the pattern matches the path: as many segments, a parameter taking one
\* non-empty segment, any other segment equal without regard to case
\* (express.Router() is not case sensitive)
Matches(pattern, path) ==
  LET ps == Segments(pattern)
      xs == Segments(path)
  IN  /\ Len(xs) = Len(ps) /\ Len(xs) > 0
      /\ \A k \in DOMAIN ps :
           IF IsParam(ps[k]) THEN Len(xs[k]) > 0
           ELSE toLowerCase(xs[k]) = toLowerCase(ps[k])

\* req.params: the segments taken by the parameters, in order
ParamsOf(pattern, path) ==
  LET ps == Segments(pattern)
      xs == Segments(path)
      at == { k \in DOMAIN ps : IsParam(ps[k]) }
      nth(j) == CHOOSE k \in at : Cardinality({ i \in at : i < k }) = j - 1
  IN  [j \in 1..Cardinality(at) |-> xs[nth(j)]]

Route(method, pattern, handler) ==
  [method |-> method, pattern |-> pattern, handler |-> handler]

\* setupRoutes() with the generic session routes registered before the
\* search and query routes
RoutesByIdFirst ==
  << Route("POST", <<"/","s","e","s","s","i","o","n","s">>,
           "createSession"),
     Route("GET", <<"/","s","e","s","s","i","o","n","s","/",":","i","d">>,
           "getSession"),
     Route("PUT", <<"/","s","e","s","s","i","o","n","s","/",":","i","d">>,
           "updateSession"),
     Route("DELETE", <<"/","s","e","s","s","i","o","n","s","/",":","i","d">>,
           "deleteSession"),
     Route("GET", <<"/","s","e","s","s","i","o","n","s","/","s","e","a","r","c","h">>,
           "searchSessions"),
     Route("GET", <<"/","s","e","s","s","i","o","n","s","/","r","e","c","e","n","t">>,
           "getRecentSessions"),
     Route("GET", <<"/","s","e","s","s","i","o","n","s","/","b","y","-","a","g","e","n","t","/",":","a","g","e","n","t","I","d">>,
           "getSessionsByAgent"),
     Route("POST", <<"/","s","e","s","s","i","o","n","s","/","f","i","n","d","-","s","i","m","i","l","a","r">>,
           "findSimilarSessions"),
     Route("POST", <<"/","s","e","s","s","i","o","n","s","/","c","l","e","a","n","u","p">>,
           "cleanupSessions"),
     Route("GET", <<"/","a","n","a","l","y","t","i","c","s","/","s","t","a","t","s">>,
           "getAnalytics") >>

\* setupRoutes(): the routes in the order of their registration
Routes ==
  << Route("POST", <<"/","s","e","s","s","i","o","n","s">>,
           "createSession"),
     Route("GET", <<"/","s","e","s","s","i","o","n","s","/","s","e","a","r","c","h">>,
           "searchSessions"),
     Route("GET", <<"/","s","e","s","s","i","o","n","s","/","r","e","c","e","n","t">>,
           "getRecentSessions"),
     Route("GET", <<"/","s","e","s","s","i","o","n","s","/","b","y","-","a","g","e","n","t","/",":","a","g","e","n","t","I","d">>,
           "getSessionsByAgent"),
     Route("POST", <<"/","s","e","s","s","i","o","n","s","/","f","i","n","d","-","s","i","m","i","l","a","r">>,
           "findSimilarSessions"),
     Route("POST", <<"/","s","e","s","s","i","o","n","s","/","c","l","e","a","n","u","p">>,
           "cleanupSessions"),
     Route("GET", <<"/","s","e","s","s","i","o","n","s","/",":","i","d">>,
           "getSession"),
     Route("PUT", <<"/","s","e","s","s","i","o","n","s","/",":","i","d">>,
           "updateSession"),
     Route("DELETE", <<"/","s","e","s","s","i","o","n","s","/",":","i","d">>,
           "deleteSession"),
     Route("GET", <<"/","a","n","a","l","y","t","i","c","s","/","s","t","a","t","s">>,
           "getAnalytics") >>

HttpRequest(method, path, admitted) ==
  [method |-> method, path |-> path, admitted |-> admitted]

\* the router handles a request: the rate limiter answers 429 when the
\* caller has no points left, otherwise the first route of the request's
\* method whose pattern matches the path gets the request, and no handler
\* passes it on; a request no route matches is answered 404
Dispatch(req) ==
  LET hits == { k \in DOMAIN Routes :
                  /\ Routes[k].method = req.method
                  /\ Matches(Routes[k].pattern, req.path) }
  IN  IF ~req.admitted THEN [handler |-> "429", params |-> <<>>]
      ELSE IF hits = {} THEN [handler |-> "404", params |-> <<>>]
      ELSE LET r == Routes[Min(hits)]
           IN  [handler |-> r.handler, params |-> ParamsOf(r.pattern, req.path)]

handle(req) ==
  /\ ret' = Returned("handle", req, Dispatch(req))
  /\ UNCHANGED <<fts5, db, hasFTS5, schema, rows, ftsIdx, now>>

Methods == { "GET", "POST", "PUT", "DELETE" }

\* paths under the router's mount point /api
Paths ==
  { <<"/","s","e","s","s","i","o","n","s">>,
    <<"/","s","e","s","s","i","o","n","s","/","s","e","a","r","c","h">>,
    <<"/","s","e","s","s","i","o","n","s","/","r","e","c","e","n","t">>,
    <<"/","s","e","s","s","i","o","n","s","/","b","y","-","a","g","e","n","t","/","a","1">>,
    <<"/","s","e","s","s","i","o","n","s","/","b","y","-","a","g","e","n","t">>,
    <<"/","s","e","s","s","i","o","n","s","/","f","i","n","d","-","s","i","m","i","l","a","r">>,
    <<"/","s","e","s","s","i","o","n","s","/","c","l","e","a","n","u","p">>,
    <<"/","s","e","s","s","i","o","n","s","/","s","1">>,
    <<"/","s","e","s","s","i","o","n","s","/","S","E","A","R","C","H">>,
    <<"/","s","e","s","s","i","o","n","s","/","s","e","a","r","c","h","/">>,
    <<"/","s","e","s","s","i","o","n","s","/","s","1","/","x">>,
    <<"/","a","n","a","l","y","t","i","c","s","/","s","t","a","t","s">>,
    <<"/","s","e","s","s","i","o","n","s","/","s","e","a","r","c","h","e","s">>,
    <<"/">>,
    <<"/","s","e","s","s","i","o","n","s","/","b","y","-","a","g","e","n","t","/","s","e","a","r","c","h">>,
    <<"/","s","e","s","s","i","o","n","s","/","/","s","e","a","r","c","h">> }

NextHttp ==
  \E method \in Methods, path \in Paths, admitted \in BOOLEAN :
    handle(HttpRequest(method, path, admitted))

SpecHttp == Init /\ [][NextHttp]_vars

\* ------------------------------------------------------------------ claims
\* x occurs verbatim (same characters, same case) inside s
Verbatim(x, s) == \E i \in 0..(Len(s) - Len(x)) : SubSeq(s, i + 1, i + Len(x)) = x

\* the fields a caller gives to create
InputFields ==
  { "title", "agent_id", "agent_type", "project_context", "original_content", "tags" }

\* C2: create followed by get on the returned id returns a session whose
\* title, agent_id, agent_type, project_context, original_content and tags
\* equal the input given to create.
C2_RoundTrip ==
  [][ (ret.op = "createSession" /\ ret.ok /\ getSession(ret.out)) =>
        /\ ret'.ok /\ ret'.out # NoSession
        /\ ret'.out.id = ret.out
        /\ \A f \in InputFields : ret'.out[f] = ret.arg[f] ]_vars

\* a get has returned a stored session, one without project context
C2_Witness ==
  /\ ret.op = "getSession" /\ ret.ok /\ ret.out # NoSession
  /\ ret.out.project_context = NULL /\ ret.out.title = tRust

\* C3: initialize() on a store that is already initialized leaves the stored
\* sessions, the index entries and the schema objects exactly as they were.
C3_IdempotentInit ==
  [][ (initialize /\ db) =>
        /\ rows' = rows
        /\ ftsIdx' = ftsIdx
        /\ schema' = schema
        /\ hasFTS5' = hasFTS5 /\ db' ]_vars

\* initialize() has run on a store that holds indexed sessions
C3_Witness ==
  /\ ret.op = "initialize" /\ rows # {} /\ DOMAIN ftsIdx # {} /\ T_FTS \in schema

\* C5: on the fallback path a search by a string that occurs verbatim in the
\* original_content of a stored session returns that session.
C5_FallbackFindsSubstring ==
  ( /\ ret.op = "searchSessions" /\ db /\ ~hasFTS5
    /\ ret.arg.query # UNDEFINED
    /\ ret.arg = Filters(ret.arg.query, UNDEFINED, UNDEFINED, UNDEFINED,
                         UNDEFINED, UNDEFINED, 0, 0) ) =>
      /\ ret.ok
      /\ \A r \in rows :
           Verbatim(ret.arg.query, r.original_content) => r.id \in Range(ret.out)

\* a fallback search by "ode", which occurs only inside the word "nodes" of the
\* content, has returned two sessions
C5_Witness ==
  /\ ret.op = "searchSessions" /\ db /\ ~hasFTS5 /\ ret.ok
  /\ ret.arg.query = tOde /\ Len(ret.out) = 2

\* the fields updateSession writes when the partial carries them
UpdatableFields == { "title", "original_content", "tags" }
\* the other fields a partial of the model can carry
OtherPartialFields == { "agent_id", "project_context" }
\* C8: after update(id, partial) on an existing session every field
\* present in partial holds the supplied value, every absent field other than
\* updated_at is unchanged, and no other session is changed.
C8_Original ==
  [][ \A id \in Ids, u \in UpdateInputs :
        updateSession(id, u) =>
          \E new \in rows' :
            /\ new.id = id
            /\ \A f \in UpdatableFields \cup OtherPartialFields :
                 new[f] = IF u[f] # UNDEFINED THEN u[f] ELSE RowOf(id)[f]
            /\ rows' \ { new } = rows \ { RowOf(id) } ]_vars

\* the sessions deleteOlderThan(N, agent_type, project_context) is to remove:
\* created earlier than now minus N days and matching every supplied filter
OlderThan(body) ==
  { r \in rows :
      /\ r.created_at < now - body.olderThanDays
      /\ body.agentType # UNDEFINED => r.agent_type = body.agentType
      /\ body.projectContext # UNDEFINED => r.project_context = body.projectContext }

\* C4: deleteOlderThan(N, agent_type, project_context) removes exactly the
\* sessions created earlier than now minus N days that match every supplied
\* filter, removes no other session, and returns the number removed.
C4_DeleteOlderThan ==
  [][ \A body \in CleanupInputs :
        (db /\ cleanupSessions(body)) =>
          /\ rows' = rows \ OlderThan(body)
          /\ ret'.ok
          /\ ret'.out = Cardinality(rows \ rows') ]_vars

\* C7: get, update and delete with an id no stored session has return the
\* not-found sentinel without raising and change no session; update and delete
\* return false only then, i.e. true for every id that exists.
C7_NotFoundOnlyForMissingId ==
  [][ db =>
        \A id \in IdArgs :
          /\ (ret'.op = "getSession" /\ getSession(id) /\ id \notin Ids) =>
               ret'.ok /\ ret'.out = NoSession /\ rows' = rows
          /\ \A u \in UpdateInputs :
               (ret'.op = "updateSession" /\ updateSession(id, u)) =>
                 /\ ret'.ok
                 /\ ret'.out = FALSE <=> id \notin Ids
                 /\ id \notin Ids => rows' = rows
          /\ (ret'.op = "deleteSession" /\ deleteSession(id)) =>
               /\ ret'.ok
               /\ ret'.out = FALSE <=> id \notin Ids
               /\ id \notin Ids => rows' = rows ]_vars

\* C9: id and created_at of a session are changed by no operation after
\* create; create stamps created_at and updated_at with the same instant;
\* every update call on an existing session refreshes updated_at, whatever its
\* partial holds; updated_at is never earlier than created_at.
C9_Timestamps ==
  [][ /\ \A r \in rows, r2 \in rows' :
           r2.rowid = r.rowid => r2.id = r.id /\ r2.created_at = r.created_at
      /\ \A r2 \in rows' :
           r2.id \notin Ids => r2.created_at = now /\ r2.updated_at = now
      /\ \A id \in Ids, u \in UpdateInputs :
           (ret'.op = "updateSession" /\ updateSession(id, u)) =>
             \E r2 \in rows' : r2.id = id /\ r2.updated_at = now
      /\ \A r2 \in rows' : r2.updated_at >= r2.created_at ]_vars

\* the titles given to sessions
Titles == { tNode, tRust }

\* C1: with capability = indexed, after any sequence of create, update and
\* delete calls, a search whose query is an exact title returns a session if
\* and only if that session currently exists with that title.
C1_IndexConsistency ==
  ( /\ ret.op = "searchSessions" /\ db /\ hasFTS5
    /\ ret.arg.query \in Titles
    /\ ret.arg = Filters(ret.arg.query, UNDEFINED, UNDEFINED, UNDEFINED,
                         UNDEFINED, UNDEFINED, 0, 0) ) =>
      \A id \in Ids \cup Range(ret.out) :
        (ret.ok /\ id \in Range(ret.out)) <=>
          (id \in Ids /\ RowOf(id).title = ret.arg.query)

\* the words of text that count for similarity: longer than 3 characters and
\* no stop words
KeyWords(text) ==
  { w \in FtsTokens(text) : Len(w) > MinWordLen /\ w \notin StopWords }

\* C6, on the indexed path: findSimilar(text) returns the empty list whenever
\* text, after dropping stop words, shares no word longer than 3 characters
\* with any stored session.
C6_NoSharedWordNoResult ==
  ( /\ ret.op = "findSimilarSessions" /\ db /\ hasFTS5
    /\ \A r \in rows : KeyWords(ret.arg.content) \cap RowTokens(r) = {} ) =>
      ret.ok /\ ret.out = <<>>

\* the text match of the path in use, on the current fields of the session
TextMatches(r, q) ==
  IF hasFTS5 THEN \E alt \in FtsQuery(q) : alt \subseteq RowTokens(r)
             ELSE LikeAny(r, q)

\* the sessions that pass the text match and every supplied filter
Passing(f) ==
  { r \in rows :
      /\ Truthy(f.query) => TextMatches(r, f.query)
      /\ f.agentType # UNDEFINED => r.agent_type = f.agentType
      /\ f.projectContext # UNDEFINED => r.project_context = f.projectContext
      /\ f.dateFrom # UNDEFINED => StrLE(f.dateFrom, toISOString(r.created_at))
      /\ f.dateTo # UNDEFINED => StrLT(toISOString(r.created_at), f.dateTo)
      /\ f.tags # UNDEFINED =>
           \E k \in 1..Len(f.tags) : TagLike(r.tags, f.tags[k]) }

\* the length of the page limit/offset cut from n results
PageLen(n, lim, off) ==
  Max({ 0, IF lim > 0 THEN Min({ n - off, lim }) ELSE n - off })

\* C10: in both search paths a session is returned only if it passes the text
\* match and every supplied filter together (tags OR-ed among themselves); a
\* filter not supplied restricts nothing; limit/offset are applied last.
C10_FiltersConjunctive ==
  (ret.op = "searchSessions" /\ ret.ok) =>
    /\ Range(ret.out) \subseteq { r.id : r \in Passing(ret.arg) }
    /\ Len(ret.out) = PageLen(Cardinality(Passing(ret.arg)), ret.arg.limit,
                              ret.arg.offset)

\* a search that carries nothing but date bounds and the default limit
DatesOnly(f) ==
  /\ f.query = UNDEFINED /\ f.agentType = UNDEFINED /\ f.projectContext = UNDEFINED
  /\ f.tags = UNDEFINED /\ f.limit >= Cardinality(rows) /\ f.offset = 0

\* C11: the date filter of search is the half-open range [dateFrom, dateTo)
\* on created_at: a session created at dateFrom is included, a session created
\* at dateTo is excluded.
C11_HalfOpenRange ==
  (ret.op = "searchSessions" /\ ret.ok /\ DatesOnly(ret.arg)) =>
    \A r \in rows :
      r.id \in Range(ret.out) <=>
        /\ ret.arg.dateFrom # UNDEFINED => StrLE(ret.arg.dateFrom, toISOString(r.created_at))
        /\ ret.arg.dateTo # UNDEFINED => StrLT(toISOString(r.created_at), ret.arg.dateTo)

\* C11 amended: the date filter of search is the closed range
\* [dateFrom, dateTo] on created_at, compared as text: a session created at
\* dateFrom is included and a session created at dateTo is included too; no
\* search returns a session outside the range.
C11_ClosedRange ==
  (ret.op = "searchSessions" /\ ret.ok) =>
    LET in(r) ==
          /\ Truthy(ret.arg.dateFrom) => StrLE(ret.arg.dateFrom, toISOString(r.created_at))
          /\ Truthy(ret.arg.dateTo) => StrLE(toISOString(r.created_at), ret.arg.dateTo)
    IN  /\ \A r \in rows : r.id \in Range(ret.out) => in(r)
        /\ DatesOnly(ret.arg) => \A r \in rows : in(r) => r.id \in Range(ret.out)

\* a search with dateFrom = dateTo = the creation instant of a stored session
\* has returned that session and left out a later one
C11_Witness ==
  /\ ret.op = "searchSessions" /\ ret.ok /\ DatesOnly(ret.arg)
  /\ ret.arg.dateFrom = <<"1","0">> /\ ret.arg.dateTo = <<"1","0">>
  /\ \E r \in rows : toISOString(r.created_at) = ret.arg.dateTo /\ r.id \in Range(ret.out)
  /\ \E r \in rows : r.id \notin Range(ret.out)

\* a search that carries nothing but tags and the default limit
TagsOnly(f) ==
  /\ f.query = UNDEFINED /\ f.agentType = UNDEFINED /\ f.projectContext = UNDEFINED
  /\ f.dateFrom = UNDEFINED /\ f.dateTo = UNDEFINED
  /\ f.tags # UNDEFINED /\ f.limit >= Cardinality(rows) /\ f.offset = 0

QuotedTagOccurs(tags, tag) ==
  Verbatim(<<"\"">> \o toLowerCase(tag) \o <<"\"">>, toLowerCase(tags))

PageCap(f) == IF f.limit > 0 THEN Min({ f.limit, MaxLimit }) ELSE MaxLimit

\* C13: search returns exactly the slice of the ordered, filtered match list
\* that starts at offset and has length at most min(limit, the server
\* maximum); it returns the empty list when offset is at or beyond the number
\* of matches, and the empty list rather than an error when nothing matches.
C13_PageOfMatches ==
  (ret.op = "searchSessions" /\ db) =>
    LET n == Cardinality(Passing(ret.arg))
        off == Max({ 0, ret.arg.offset })
    IN  /\ ret.ok
        /\ Range(ret.out) \subseteq { r.id : r \in Passing(ret.arg) }
        /\ Len(ret.out) = PageLen(n, PageCap(ret.arg), off)
        /\ off >= n => ret.out = <<>>

\* a text in which highlight() has marked something
Highlighted(t) == t # NULL /\ Verbatim(OpenMark, t) /\ Verbatim(CloseMark, t)

\* C14: results of a search on the fallback path (including a search with no
\* text query) come in descending created_at order and carry neither a rank
\* nor a matched_content; results on the indexed path come in ascending rank
\* order and each carries a rank and a highlighted excerpt.
C14_OrderAndColumns ==
  (ret.op = "searchSessions" /\ ret.ok) =>
    LET n == Len(ret.out)
    IN  /\ Len(ret.cols) = n
        /\ IF Truthy(ret.arg.query) /\ checkFTSTableExists
             THEN /\ \A k \in 1..n :
                       /\ ret.cols[k].rank # NULL
                       /\ Highlighted(ret.cols[k].matched_content)
                  /\ \A j, k \in 1..n :
                       j < k => StrLE(ret.cols[j].rank, ret.cols[k].rank)
             ELSE /\ \A k \in 1..n :
                       /\ ret.cols[k].rank = NULL
                       /\ ret.cols[k].matched_content = NULL
                  /\ \A j, k \in 1..n :
                       j < k => RowOf(ret.out[j]).created_at >=
                                  RowOf(ret.out[k]).created_at

\* the ids of a listing come in descending created_at order, sessions of equal
\* created_at in the order they were inserted
InsertionOrdered(out) ==
  \A j, k \in 1..Len(out) :
    j < k => \/ RowOf(out[j]).created_at > RowOf(out[k]).created_at
             \/ /\ RowOf(out[j]).created_at = RowOf(out[k]).created_at
                /\ RowOf(out[j]).rowid < RowOf(out[k]).rowid

\* the sessions a listing selects from
Listed(op, arg) ==
  IF op = "getSessionsByAgent" THEN { r \in rows : r.agent_id = arg.agentId }
  ELSE IF arg.agentType # UNDEFINED THEN { r \in rows : r.agent_type = arg.agentType }
  ELSE rows

\* a listing repeated on an unchanged store gives the same result
ListingRepeats ==
  (/\ ret.op \in { "getRecentSessions", "getSessionsByAgent" }
   /\ ret'.op = ret.op /\ ret'.arg = ret.arg /\ ret.ok /\ ret'.ok) =>
     ret'.out = ret.out

\* C15: listRecent(limit, agent_type?) and listByAgent(agent_id, limit) return
\* at most limit sessions, only sessions matching the given agent type or agent
\* id, the newest first by created_at with ties in insertion order, and the
\* same result on every call against an unchanged store.
C15_Listings ==
  /\ [](ret.op \in { "getRecentSessions", "getSessionsByAgent" } /\ ret.ok =>
          /\ Len(ret.out) = Min({ ret.arg.limit, Cardinality(Listed(ret.op, ret.arg)) })
          /\ Range(ret.out) \subseteq { r.id : r \in Listed(ret.op, ret.arg) }
          /\ \A j, k \in 1..Len(ret.out) : j # k => ret.out[j] # ret.out[k]
          /\ InsertionOrdered(ret.out))
  /\ [][ListingRepeats]_vars

BulkDeletes ==
  { "deleteSessions", "deleteAllSessions", "deleteSessionsByAgent",
    "deleteSessionsByProject" }

\* the sessions a bulk delete is asked to remove
Selected(op, arg) ==
  IF op = "deleteSessions" THEN { r \in rows : \E k \in DOMAIN arg : r.id = arg[k] }
  ELSE IF op = "deleteAllSessions" THEN rows
  ELSE IF op = "deleteSessionsByAgent" THEN { r \in rows : r.agent_id = arg }
  ELSE { r \in rows : r.project_context = arg }

\* a bulk delete (a step that leaves the clock alone and ends in its answer)
\* removes the selected sessions, keeps the others as they are and returns how
\* many it removed
BulkDeleteStep ==
  (ret'.op \in BulkDeletes /\ ret'.ok /\ now' = now) =>
    /\ rows' = rows \ Selected(ret'.op, ret'.arg)
    /\ ret'.out = Cardinality(Selected(ret'.op, ret'.arg))
    /\ Selected(ret'.op, ret'.arg) = {} => rows' = rows /\ ret'.out = 0

\* what get and search return is stored: nothing removed comes back
OnlyStoredReturned ==
  /\ (ret.op = "getSession" /\ ret.ok /\ ret.out # NoSession) => ret.out \in rows
  /\ (ret.op = "getSession" /\ ret.ok /\ ret.arg \notin Ids) => ret.out = NoSession
  /\ (ret.op = "searchSessions" /\ ret.ok) => Range(ret.out) \subseteq Ids

\* C16: deleteMany(ids), deleteAll(), deleteByAgent(agent_id) and
\* deleteByProject(project_context) remove exactly the selected sessions, leave
\* every other session unchanged and return the number removed (0 and no
\* change for an empty id list or a selector matching nothing); afterwards no
\* removed session is returned by get or by any search on either search path.
C16_BulkDelete == [][BulkDeleteStep]_vars /\ []OnlyStoredReturned

\* two sessions of different agents, one removed by agent, the other kept
C16_Witness ==
  /\ ret.op = "deleteSessionsByAgent" /\ ret.ok /\ ret.out = 1
  /\ rows # {}
  /\ \A r \in rows : r.agent_id # ret.arg

\* a create that follows the deletion of a session returns another id than
\* the deleted session had
FreshAfterDelete ==
  (/\ ret.op = "deleteSession" /\ ret.ok /\ ret.out = TRUE
   /\ ret'.op = "createSession" /\ ret'.ok) =>
     ret'.out # ret.arg

\* C18: every create returns an id different from the id of every session ever
\* created, including sessions since deleted; no two stored sessions share an
\* id.
C18_FreshIds ==
  /\ [](\A r, q \in rows : r.id = q.id => r = q)
  /\ [](ret.op = "createSession" /\ ret.ok =>
          \A r \in rows : r.id = ret.out => r.rowid = Max({ q.rowid : q \in rows }))
  /\ [][FreshAfterDelete]_vars

StoreCalls ==
  { "createSession", "getSession", "updateSession", "deleteSession",
    "searchSessions" }

\* no id that generateId() can give at this instant is stored, so that no
\* create can have failed on the PRIMARY KEY (the matter of C18)
NoIdTaken == \A rnd \in Rand : generateId(rnd) \notin Ids

\* C17: if the capability probe fails at startup, initialize() completes with
\* capability = fallback, and every later create, get, update, delete and
\* search succeeds using the fallback path.
C17_ProbeFailure ==
  /\ (ret.op = "initialize" /\ ~fts5) => (ret.ok /\ db /\ ~hasFTS5)
  /\ (ret.op \in StoreCalls /\ db /\ ~fts5 /\ ~hasFTS5 /\ NoIdTaken) =>
       /\ ret.ok
       /\ ret.op = "searchSessions" =>
            \A k \in DOMAIN ret.cols : ret.cols[k].rank = NULL

\* the three agent types of the specification
Listed3 == { <<"claude">>, <<"cursor">>, <<"other">> }

\* a create with an agent type outside the three is refused, by the route or
\* by the store, and the store is as before
UnlistedCreateRefused ==
  /\ ret'.op = "validateSessionData" => rows' = rows
  /\ (ret'.op = "createSession" /\ ret'.arg.agent_type \notin Listed3) =>
       (~ret'.ok /\ rows' = rows)

\* an update leaves the agent type of every session as it was
UpdateKeepsAgentType ==
  ret'.op = "updateSession" =>
    \A r \in rows : \E q \in rows' : q.id = r.id /\ q.agent_type = r.agent_type

\* C19: the agent_type of every stored session is one of claude, cursor and
\* other; a create with any other value is rejected and stores nothing; no
\* update changes agent_type to a value outside the set.
C19_AgentTypes ==
  /\ [](\A r \in rows : r.agent_type \in Listed3)
  /\ [][UnlistedCreateRefused]_vars
  /\ [][UpdateKeepsAgentType]_vars

\* a stored session, and a create request with agent type gpt just refused
C19_Witness ==
  /\ rows # {}
  /\ ret.op = "validateSessionData"
  /\ ret.arg.agentType = Str(<<"gpt">>)
  /\ ret.out = "agentType must be one of: claude, cursor, other"

\* the tag texts of the model, and the arrays of them up to two long
TagTexts == { tDb, tApi, tMongodb }
TagArrays == { <<>> } \cup { << a >> : a \in TagTexts }
               \cup { << a, b >> : a \in TagTexts, b \in TagTexts }

\* t is the JSON serialization of an array of strings
IsTagsJSON(t) == \E a \in TagArrays : t = JSONStringify(a)

\* C20: every stored session has a non-empty original_content and a tags
\* value that is the JSON serialization of an array of strings, whatever
\* create and update requests went through the routing layer.
C20_ContentAndTags ==
  \A r \in rows :
    /\ r.original_content # NULL /\ r.original_content # <<>>
    /\ IsTagsJSON(r.tags)

\* an update whose tags are given and are not a serialized array of strings,
\* or whose agent type is given and is not one of the three
InvalidUpdate(updates) ==
  \/ Truthy(updates.tags) /\ ~IsTagsJSON(updates.tags)
  \/ Truthy(updates.agent_type) /\ updates.agent_type \notin Listed3

\* what reaches the store from a create is valid; an invalid update or
\* cleanup changes nothing, and the cleanup is answered 400
ValidatedWrite ==
  /\ (ret'.op = "createSession" /\ ret'.ok) =>
       /\ ret'.arg.agent_type \in Listed3
       /\ Truthy(ret'.arg.original_content)
       /\ IsTagsJSON(ret'.arg.tags)
  /\ (ret'.op = "updateSession" /\ InvalidUpdate(ret'.arg.updates)) => rows' = rows
  /\ (ret'.op = "cleanupSessions" /\ ret'.arg.olderThanDays < HalfDaysPerDay) =>
       (ret'.out = 400 /\ rows' = rows)

\* C21: every request that writes to the store is validated before the store
\* is called: a create, update or cleanup request with invalid input (agent
\* type outside the set, missing, non-string or oversize content, tags that are
\* not an array of strings, olderThanDays not a number >= 1) is answered with
\* status 400 and changes no stored session.
C21_ValidatedWrites == [][ValidatedWrite]_vars

\* the call carries text to look for
HasText(call) ==
  IF call.op = "findSimilarSessions"
    THEN Len(extractKeyTermsFromContent(call.arg.content)) > 0
    ELSE Truthy(call.arg.query)

\* C22: the capability probe runs once per initialize() and its result is
\* kept for the store's lifetime; every search and findSimilar takes the
\* indexed path exactly when that result is "indexed" (and there is text to
\* look for) and the fallback path otherwise, whatever the file holds from an
\* earlier run.  The fallback path answers every request of the model, with
\* NULL ranks; the indexed path answers with ranks.
C22_CachedCapability ==
  (ret.op \in { "searchSessions", "findSimilarSessions" } /\ db) =>
    IF hasFTS5 /\ HasText(ret)
      THEN (ret.ok /\ ret.op = "searchSessions") =>
             \A k \in DOMAIN ret.cols : ret.cols[k].rank # NULL
      ELSE /\ ret.ok
           /\ ret.op = "searchSessions" =>
                \A k \in DOMAIN ret.cols : ret.cols[k].rank = NULL

\* a create, update or delete of one session shows readers the store before
\* the call or the whole of its effect: at most one session differs, and a
\* session created or updated carries the time of the call in updated_at
WholeWrites ==
  (ret'.op \in { "createSession", "updateSession", "deleteSession" }) =>
    /\ Cardinality({ id \in Ids \cup { r.id : r \in rows' } :
                       { r \in rows : r.id = id } # { r \in rows' : r.id = id } }) <= 1
    /\ \A r \in rows' \ rows : r.updated_at = now

\* every row has its index entry, holding the tokens of its current fields
IndexCurrent ==
  \A r \in rows : r.rowid \in DOMAIN ftsIdx /\ ftsIdx[r.rowid] = RowTokens(r)

\* C23: under any interleaving of requests each store operation takes effect
\* atomically: a reader sees a session entirely before or entirely after a
\* create, update or delete, never a partial write, and with capability =
\* indexed never a row whose index entry is missing or stale once the mutating
\* call has returned.
C23_AtomicWrites ==
  /\ [][WholeWrites]_vars
  /\ []((/\ db /\ hasFTS5 /\ ret.ok
         /\ ret.op \in { "createSession", "updateSession", "deleteSession" })
          => IndexCurrent)

\* a store method called on a store that was never initialized, or right
\* after an initialize() that failed, raises an error and changes nothing
CallBeforeInitialize ==
  (/\ ret.op = "new" \/ (ret.op = "initialize" /\ ~ret.ok)
   /\ ret'.op \in StoreCalls) =>
     (~ret'.ok /\ rows' = rows /\ ftsIdx' = ftsIdx)

\* C24: no store operation runs against a store whose initialize() has not
\* completed successfully: the bootstrap awaits initialize() before it mounts
\* the routes or listens and exits without serving when initialize() fails,
\* and every store method invoked before a successful initialize() raises an
\* error without changing state.
C24_InitializeFirst ==
  /\ []((ret.op = "startServer" /\ ~ret.ok) => ~db)
  /\ [][CallBeforeInitialize]_vars

\* when the process exits on a signal the handle has been closed, and a store
\* method called after close() executes nothing
ClosedBeforeExit ==
  /\ ret'.op \in Signals => ~db
  /\ (ret.op = "close" /\ ret'.op \in StoreCalls) =>
       (~ret'.ok /\ rows' = rows /\ ftsIdx' = ftsIdx)

\* C25: on shutdown (SIGTERM or SIGINT) the store handle is closed exactly
\* once before the process exits, and no store operation is executed after
\* close().
C25_CloseOnShutdown == [][ClosedBeforeExit]_vars

\* the session matches one of the terms on its current fields: as a token on
\* the indexed path, as a substring of title, content or tags on the fallback
MatchesATerm(r, terms) ==
  \E k \in DOMAIN terms :
    IF checkFTSTableExists THEN terms[k] \in RowTokens(r) ELSE LikeAny(r, terms[k])

\* C26: findSimilar(text, limit) queries with at most 8 key terms of the text
\* (lower-cased words longer than 3 characters that are no stop words),
\* OR-combined; it returns the empty list when no word qualifies, returns only
\* sessions that match at least one of the terms, and never more than limit
\* results.
C26_FindSimilarTerms ==
  (ret.op = "findSimilarSessions" /\ ret.ok) =>
    LET terms == extractKeyTermsFromContent(ret.arg.content)
    IN  /\ Len(terms) <= TopTerms
        /\ \A k \in DOMAIN terms : Len(terms[k]) > MinWordLen /\ terms[k] \notin StopWords
        /\ Len(terms) = 0 => ret.out = <<>>
        /\ Len(ret.out) <= ret.arg.limit
        /\ \A k \in DOMAIN ret.out :
             \E r \in rows : r.id = ret.out[k] /\ MatchesATerm(r, terms)

\* the first detected language is one the title shows
UsableLanguage(codeSnippets) ==
  Len(codeSnippets) > 0 /\ codeSnippets[1].language \notin { tPlain, tInline }

StartsWith(s, p) == Len(p) <= Len(s) /\ SubSeq(s, 1, Len(p)) = p
EndsWith(s, p) == Len(p) <= Len(s) /\ SubSeq(s, Len(s) - Len(p) + 1, Len(s)) = p

\* the topics the title prefers: the primary technology terms when there is
\* one, all topics otherwise
Preferred(keyTopics) ==
  IF \E k \in DOMAIN keyTopics : keyTopics[k] \in PrimaryTopics
    THEN SelectSeq(keyTopics, LAMBDA t : t \in PrimaryTopics)
    ELSE keyTopics

\* C27 as stated: generatedTitle is at most 50 characters long and is built
\* from the detected code language (unless plain or inline) plus up to 2
\* topics, and when there is neither a usable language nor any topic the
\* title falls back to "Development".
C27_DevelopmentFallback ==
  ret.op = "generateTitle" =>
    LET topics == ret.arg.keyTopics
        snips  == ret.arg.codeSnippets
    IN  /\ Len(ret.out) <= MaxTitle
        /\ UsableLanguage(snips) =>
             StartsWith(ret.out, Slice(toUpperCase(snips[1].language), CutTitle))
        /\ (~UsableLanguage(snips) /\ Len(topics) = 0) =>
             StartsWith(ret.out, tDevelopment)

\* C27, amended: generatedTitle is at most 50 characters long.  With no topic
\* and no code snippet it is "Chat Session - " and the date.  Otherwise it
\* starts with the upper-cased language of the first code snippet unless that
\* is plain or inline, names after it the first two primary technology terms
\* among the topics (the first two topics when none is primary) and no other
\* topic, is "Development Discussion" when there is neither a usable language
\* nor a topic, ends with " Discussion", and a longer result is cut to 47
\* characters and "...".
C27_GeneratedTitle ==
  ret.op = "generateTitle" =>
    LET topics == ret.arg.keyTopics
        snips  == ret.arg.codeSnippets
        pref   == Preferred(topics)
        whole  == ~EndsWith(ret.out, tEllipsis)
    IN  /\ Len(ret.out) <= MaxTitle
        /\ ~whole => Len(ret.out) = MaxTitle
        /\ IF Len(topics) = 0 /\ Len(snips) = 0
             THEN StartsWith(ret.out, tChatSession) /\ Len(ret.out) = Len(tChatSession) + 1
           ELSE
             /\ UsableLanguage(snips) =>
                  StartsWith(ret.out, Slice(toUpperCase(snips[1].language), CutTitle))
             /\ (~UsableLanguage(snips) /\ Len(topics) > 0) =>
                  StartsWith(ret.out, Slice(Capitalize(pref[1]), CutTitle))
             /\ (~UsableLanguage(snips) /\ Len(topics) = 0) =>
                  ret.out = tDevelopment \o tDiscussion
             /\ whole =>
                  /\ EndsWith(ret.out, tDiscussion)
                  /\ \A k \in DOMAIN topics :
                       Verbatim(Capitalize(topics[k]) \o << " " >>, ret.out)
                         <=> topics[k] \in Range(Slice(pref, 2))

\* a title with a language and two topics that had to be cut
C27_Witness ==
  /\ ret.op = "generateTitle"
  /\ UsableLanguage(ret.arg.codeSnippets)
  /\ Len(ret.arg.keyTopics) >= 2
  /\ Len(ret.out) = MaxTitle
  /\ EndsWith(ret.out, tEllipsis)

\* C28: whenever the text-search table exists after initialize() has returned
\* (searches take the indexed path), the insert, delete and update triggers
\* all exist as well; a failure while creating the table or a trigger leaves
\* no store that searches an index no write maintains.
C28_TriggersWithTable ==
  (ret.op = "initialize" /\ ret.ok /\ checkFTSTableExists) =>
    { TR_AI, TR_AD, TR_AU } \subseteq schema

\* the index holds one entry for each session and no other: under the rowid of
\* the session, with the tokens of its current fields
IndexedOnce ==
  /\ DOMAIN ftsIdx = { r.rowid : r \in rows }
  /\ \A r \in rows : ftsIdx[r.rowid] = RowTokens(r)

\* initialize() ends with capability = indexed on a database file whose index
\* is empty (sessions written in fallback mode or before the index existed) or
\* in step with its sessions
BackfillStep ==
  (/\ ret'.op = "initialize" /\ ret'.ok /\ ret' # ret
   /\ hasFTS5' /\ checkFTSTableExists'
   /\ ftsIdx = EmptyIdx \/ IndexedOnce) => IndexedOnce'

\* C29: after initialize() completes with capability = indexed, every session
\* already in the table has exactly one index entry with its current title,
\* original_content and tags, including sessions written in fallback mode or
\* before the index existed; the back-fill adds no second entry for a session
\* that is already indexed.
C29_BackfillOnInitialize == [][BackfillStep]_vars

\* the path as the router compares it: lower case, without one trailing "/"
Compared(path) ==
  LET l == toLowerCase(path)
  IN  IF Len(l) > 1 /\ l[Len(l)] = "/" THEN SubSeq(l, 1, Len(l) - 1) ELSE l

pSessions    == <<"/","s","e","s","s","i","o","n","s">>
pSearch      == <<"/","s","e","s","s","i","o","n","s","/","s","e","a","r","c","h">>
pRecent      == <<"/","s","e","s","s","i","o","n","s","/","r","e","c","e","n","t">>
pByAgent     == <<"/","s","e","s","s","i","o","n","s","/","b","y","-","a","g","e","n","t","/">>
pFindSimilar == <<"/","s","e","s","s","i","o","n","s","/","f","i","n","d","-","s","i","m","i","l","a","r">>
pCleanup     == <<"/","s","e","s","s","i","o","n","s","/","c","l","e","a","n","u","p">>
pStats       == <<"/","a","n","a","l","y","t","i","c","s","/","s","t","a","t","s">>

\* /sessions/by-agent/ followed by one non-empty segment
IsByAgentPath(c) ==
  /\ StartsWith(c, pByAgent) /\ Len(c) > Len(pByAgent)
  /\ \A i \in (Len(pByAgent) + 1)..Len(c) : c[i] # "/"

\* the handler registered for this very method and path, "" when there is none
OwnHandler(method, c) ==
  IF method = "GET" /\ c = pSearch THEN "searchSessions"
  ELSE IF method = "GET" /\ c = pRecent THEN "getRecentSessions"
  ELSE IF method = "GET" /\ IsByAgentPath(c) THEN "getSessionsByAgent"
  ELSE IF method = "POST" /\ c = pFindSimilar THEN "findSimilarSessions"
  ELSE IF method = "POST" /\ c = pCleanup THEN "cleanupSessions"
  ELSE IF method = "POST" /\ c = pSessions THEN "createSession"
  ELSE IF method = "GET" /\ c = pStats THEN "getAnalytics"
  ELSE ""

ByIdHandlers == { "getSession", "updateSession", "deleteSession" }

\* C30: with first-match routing a GET to /sessions/search, /sessions/recent
\* or /sessions/by-agent/:agentId and a POST to /sessions/find-similar or
\* /sessions/cleanup go to their own handlers, never to a by-id handler with
\* the id search, recent, find-similar or cleanup; a request reaches a
\* /sessions/:id handler only when no specific route matches it.
C30_SpecificRoutesFirst ==
  (ret.op = "handle" /\ ret.arg.admitted) =>
    LET c   == Compared(ret.arg.path)
        own == OwnHandler(ret.arg.method, c)
    IN  /\ own # "" => ret.out.handler = own
        /\ ret.out.handler \in ByIdHandlers =>
             /\ own = ""
             /\ Len(ret.out.params) = 1
             /\ Compared(ret.arg.path) = toLowerCase(pSessions \o << "/" >> \o ret.out.params[1])

\* GET /sessions/search was handled by the search handler
C30_Witness ==
  /\ ret.op = "handle" /\ ret.arg.admitted
  /\ ret.arg.method = "GET" /\ ret.arg.path = pSearch
  /\ ret.out.handler = "searchSessions"

====
